---- MODULE Spec2Model ----
(***************************************************************************)
(* State-machine model of the agent workflows of working_with_rag:         *)
(*   - Agents/adaptive_refelction.py  (generate -> critique -> route)      *)
(*   - Agents/plan_execute.py         (plan -> execute -> refine)          *)
(*   - LangGraph Basics/stateful_agent.py, agentic_rag_system.py           *)
(*                                    (assistant <-> tools routing)        *)
(* and of its services:                                                    *)
(*   - LangGraph Basics/customer_support_chatbot.py (threads per session)  *)
(*   - christmas_based_rag/backend/main.py (/search, /search/stream)       *)
(*   - Production_RAG/api.py, rag_core.py  (/query, /search, /stats)       *)
(*   - the scripts' API key handling at startup                            *)
(*   - rag_task_mrchris.py                 (the two chunkers)              *)
(* and of its helpers:                                                     *)
(*   - agentic_rag_system.py  (RateLimiter, the semantic retrieval cache,  *)
(*                             query_agent's report)                       *)
(*   - Agents/content_pipeline.py (extract_keywords, search_knowledge_base)*)
(* A graph node is one action: it computes the node's update dict from the *)
(* current state and the LLM's reply, merges it into the state the way the *)
(* StateGraph does, and follows the outgoing (conditional) edge.           *)
(***************************************************************************)
EXTENDS Integers, Sequences, FiniteSets, TLC

VARIABLES
    wf,          \* which script's graph this invocation runs
    pc,          \* the node the graph runs next ("END" after the last one)
    state,       \* the graph's shared state dict
    prompt,      \* the prompt of the most recent llm.invoke
    replies,     \* per node, the content of the LLM's most recent reply to it
    history,     \* the nodes run so far in this invocation, in order
    qs,          \* QualityScore instance under evaluation
    qs_approved, \* <<b>> once qs.is_approved() has returned b
    response,    \* planner: the content of the LLM's response
    steps,       \* planner: <<plan>> once the steps are parsed
    agent,       \* which tool-routing script runs
    apc,         \* tool-routing graph: the node that runs next
    messages,    \* tool-routing graph: MessagesState["messages"]
    ahistory,    \* tool-routing graph: the nodes run in this invocation
    raised,      \* tool-routing graph: an exception left agent.invoke
    report,      \* tool-routing graph: <<r>> once query_agent has reported r
    threads,     \* customer support: MemorySaver's messages per thread_id
    sent,        \* customer support: the send_message calls made, in order
    groq_client, \* Christmas backend: the Groq client, or None
    request,     \* Christmas backend: <<r>> for the SearchRequest r being served
    xresponse,   \* Christmas backend: <<r>> for the response r of POST /search
    xcalls,      \* Christmas backend: the store and LLM calls made for request
    events,      \* Christmas backend: the events of the response stream so far
    spc,         \* Christmas backend: where event_generator is suspended
    pending,     \* Christmas backend: the words event_generator has yet to stream
    chunks,      \* Christmas backend: event_generator's chunks
    app,         \* Production RAG API: "created", "serving" or "exited"
    vectorstore_manager, \* Production RAG API: the global, by its store's state
    rag_generator,       \* Production RAG API: the global
    api_response, \* Production RAG API: <<r>> for the last response r
    script,      \* startup: the script being started
    environ,     \* startup: the API key variables set in the environment
    phase,       \* startup: "import", "raised" or "running"
    client,      \* startup: the script's LLM client, or None
    nodes_run,   \* startup: graph nodes / request handlers run so far
    llm_calls,   \* startup: calls made to the provider so far
    chunk_text,  \* chunking: the text to chunk
    chunk_size,  \* chunking: max_chunk_size / min_chunk_size
    chunked,     \* chunking: <<[by, chunks]>> once a chunker has returned
    now,         \* rate limiter: time.time(), in seconds
    call_times,  \* rate limiter: RateLimiter.call_times
    let_through, \* rate limiter: the times at which wait_if_needed returned
    retrieval_cache, \* semantic cache: the entries, in the order appended
    retrievals,  \* semantic cache: the retrieve_python_docs calls made so far
    tool_input,  \* content pipeline: the text handed to a tool
    tool_output  \* content pipeline: <<[tool, found]>> once a tool has returned

vars == <<wf, pc, state, prompt, replies, history, qs, qs_approved, response, steps,
          agent, apc, messages, ahistory, raised, report, threads, sent,
          groq_client, request, xresponse, xcalls, events, spc, pending, chunks,
          app, vectorstore_manager, rag_generator, api_response,
          script, environ, phase, client, nodes_run, llm_calls,
          chunk_text, chunk_size, chunked,
          now, call_times, let_through, retrieval_cache, retrievals,
          tool_input, tool_output>>

refineVars == <<wf, pc, state, prompt, replies, history>>
scoreVars == <<qs, qs_approved>>
plannerVars == <<response, steps>>
agentVars == <<agent, apc, messages, ahistory, raised, report>>
workflowVars == <<refineVars, scoreVars, plannerVars, agentVars>>
chatVars == <<threads, sent>>
\* The services' variables, which the workflows leave alone.
xmasVars == <<groq_client, request, xresponse, xcalls, events, spc, pending, chunks>>
apiVars == <<app, vectorstore_manager, rag_generator, api_response>>
startVars == <<script, environ, phase, client, nodes_run, llm_calls>>
chunkVars == <<chunk_text, chunk_size, chunked>>
deployedVars == <<chatVars, xmasVars, apiVars, startVars, chunkVars>>
\* The variables of the helpers of agentic_rag_system.py.
limiterVars == <<now, call_times, let_through>>
cacheVars == <<retrieval_cache, retrievals>>
pipelineVars == <<tool_input, tool_output>>
utilVars == <<limiterVars, cacheVars, pipelineVars>>
serviceVars == <<deployedVars, utilVars>>

\* A value no node writes: "the call has not happened".
None == "None"

(***************************************************************************)
(* Bounds of the model                                                     *)
(***************************************************************************)
\* LLM replies (drafts, step results) are drawn from 1..NTexts.
NTexts == 2
\* The workflow's critic scores each criterion within ScoreSpread below the
\* approval threshold, up to the threshold.
ScoreSpread == 1
\* The planner's LLM response has at most MaxPlanLines lines in the workflow.
MaxPlanLines == 3
\* The planner's LLM response has at most MaxResponseLen characters when the
\* parse is checked on its own.
MaxResponseLen == 4
\* A conversation thread holds at most MaxMessages messages.
MaxMessages == 6
\* One assistant response requests at most MaxToolCalls tool calls.
MaxToolCalls == 2
\* The customer support chatbot receives at most MaxCalls messages.
MaxCalls == 3
\* A request's n_results lies within NSpread of the accepted range.
NSpread == 1
\* The store returns at most MaxDocs documents of at most MaxWords words.
MaxDocs == 2
MaxWords == 2
\* The LLM streams at most MaxTokens tokens.
MaxTokens == 2
\* A started script runs at most MaxNodes graph nodes or request handlers.
MaxNodes == 2
\* The chunkers get texts of at most MaxTextLen characters and a chunk size
\* of at most MaxChunkSize.
MaxTextLen == 5
MaxChunkSize == 4
\* Rate limiter: the clock stops at MaxClock seconds, after MaxLimiterCalls calls.
MaxClock == 75
MaxLimiterCalls == 6
\* Semantic cache: at most MaxRetrievals calls of retrieve_python_docs.
MaxRetrievals == 4
\* Production API: top_k up to MaxTopK, on a store of StoreSize chunks.
MaxTopK == 4
\* Content pipeline: a text has at most MaxPipelineWords words.
MaxPipelineWords == 2
StoreSize == 5

\* A text is a sequence; the empty sequence is the empty string "".
Texts == {<<i>> : i \in 1..NTexts}
\* No prompt sent yet, no reply received yet.
NoPrompt == [kind |-> "none"]
NoReplies == [node \in {} |-> <<>>]
\* replies with the reply to `node` recorded.
Replied(r, node, content) ==
    [n \in DOMAIN r \cup {node} |-> IF n = node THEN content ELSE r[n]]

(***************************************************************************)
(* Helpers for Python lists and dicts                                      *)
(***************************************************************************)
Last(s) == s[Len(s)]

\* dict merge of a node's return value into the state: plain keys are
\* overwritten, keys in `added` are reduced with operator.add.
Merge(st, upd, added) ==
    [k \in DOMAIN st |->
        IF k \in DOMAIN upd
        THEN IF k \in added THEN st[k] \o upd[k] ELSE upd[k]
        ELSE st[k]]

\* The empty dict {}.
EmptyDict == <<>>

Count(h, node) == Cardinality({i \in 1..Len(h) : h[i].node = node})
LLMCalls(h, node) == Cardinality({i \in 1..Len(h) : h[i].node = node /\ h[i].llm})

(***************************************************************************)
(* Agents/adaptive_refelction.py                                           *)
(***************************************************************************)
ScoreMin == 1
ScoreMax == 5
ScoreRange == ScoreMin..ScoreMax

QualityScore == [clarity : ScoreRange, completeness : ScoreRange, accuracy : ScoreRange]

\* Variant: the threshold taken as exclusive.
is_approved_exclusive(s) == s.clarity > 4 /\ s.completeness > 4 /\ s.accuracy > 4

is_approved(s) == s.clarity >= 4 /\ s.completeness >= 4 /\ s.accuracy >= 4

MAX_ITERATIONS == 3

adaptive_initial_state ==
    [task |-> "task", draft |-> <<>>, scores |-> <<>>, iterations |-> 0,
     final_output |-> <<>>]

\* Variant: the refine prompt quotes the first score of the history.
adaptive_generator_prompt_stale(st) ==
    IF st.iterations = 0
    THEN [kind |-> "create", task |-> st.task]
    ELSE [kind |-> "improve", task |-> st.task, draft |-> st.draft,
          last_score |-> st.scores[1]]

adaptive_generator_prompt(st) ==
    IF st.iterations = 0
    THEN [kind |-> "create", task |-> st.task]
    ELSE [kind |-> "improve", task |-> st.task, draft |-> st.draft,
          last_score |-> Last(st.scores)]

\* Variant: the generator counts its own passes as iterations.
adaptive_generator_counting(st, content) ==
    [draft |-> content, iterations |-> st.iterations + 1]

adaptive_generator(st, content) == [draft |-> content]

adaptive_critic_prompt(st) == [kind |-> "evaluate", task |-> st.task, draft |-> st.draft]

\* Variant: the critic keeps only the latest score.
adaptive_critic_latest(st, score) ==
    [scores |-> <<score>>, iterations |-> st.iterations + 1]

adaptive_critic(st, score) ==
    [scores |-> st.scores \o <<score>>, iterations |-> st.iterations + 1]

adaptive_finalizer(st) == [final_output |-> st.draft]

\* Variant: the cap is tested with > instead of >=.
adaptive_should_refine_gt(st) ==
    IF st.scores = <<>> THEN "generator"
    ELSE IF is_approved(Last(st.scores)) THEN "finalizer"
    ELSE IF st.iterations > MAX_ITERATIONS THEN "finalizer"
    ELSE "generator"

\* Variant: the cap is tested against the number of nodes run per pass
\* (generator and critic) instead of the number of passes.
adaptive_should_refine_late(st) ==
    IF st.scores = <<>> THEN "generator"
    ELSE IF is_approved(Last(st.scores)) THEN "finalizer"
    ELSE IF st.iterations >= 2 * MAX_ITERATIONS THEN "finalizer"
    ELSE "generator"

adaptive_should_refine(st) ==
    IF st.scores = <<>> THEN "generator"
    ELSE IF is_approved(Last(st.scores)) THEN "finalizer"
    ELSE IF st.iterations >= MAX_ITERATIONS THEN "finalizer"
    ELSE "generator"

\* Variant: the finalizer is wired back into the loop.
reflection_builder_loop(node, st) ==
    CASE node = "START" -> "generator"
      [] node = "generator" -> "critic"
      [] node = "critic" -> adaptive_should_refine(st)
      [] node = "finalizer" -> "generator"

\* reflection_builder's edges: the node that follows `node` in state st.
reflection_builder(node, st) ==
    CASE node = "START" -> "generator"
      [] node = "generator" -> "critic"
      [] node = "critic" -> adaptive_should_refine(st)
      [] node = "finalizer" -> "END"

\* The scores the critic's structured output can carry in the workflow.
CriticScores ==
    LET lo == IF 4 - ScoreSpread < ScoreMin THEN ScoreMin ELSE 4 - ScoreSpread
    IN  [clarity : lo..4, completeness : lo..4, accuracy : lo..4]

AdaptiveGenerator ==
    /\ wf = "adaptive" /\ pc = "generator"
    /\ \E content \in Texts :
        /\ state' = Merge(state, adaptive_generator(state, content), {})
        /\ prompt' = adaptive_generator_prompt(state)
        /\ replies' = Replied(replies, "generator", content)
        /\ history' = Append(history, [node |-> "generator", llm |-> TRUE])
        /\ pc' = reflection_builder("generator", state')
    /\ UNCHANGED <<wf, scoreVars, plannerVars, agentVars, serviceVars>>

AdaptiveCritic ==
    /\ wf = "adaptive" /\ pc = "critic"
    /\ \E score \in CriticScores :
        /\ state' = Merge(state, adaptive_critic(state, score), {})
        /\ prompt' = adaptive_critic_prompt(state)
        /\ replies' = Replied(replies, "critic", score)
        /\ history' = Append(history, [node |-> "critic", llm |-> TRUE])
        /\ pc' = reflection_builder("critic", state')
    /\ UNCHANGED <<wf, scoreVars, plannerVars, agentVars, serviceVars>>

AdaptiveFinalizer ==
    /\ wf = "adaptive" /\ pc = "finalizer"
    /\ state' = Merge(state, adaptive_finalizer(state), {})
    /\ history' = Append(history, [node |-> "finalizer", llm |-> FALSE])
    /\ pc' = reflection_builder("finalizer", state')
    /\ UNCHANGED <<wf, prompt, replies, scoreVars, plannerVars, agentVars, serviceVars>>

(***************************************************************************)
(* Agents/plan_execute.py                                                  *)
(***************************************************************************)
\* Text is a sequence of one-character strings. The alphabet has two digits,
\* a letter, a blank and the newline.
Digits == {"1", "2"}
Chars == Digits \cup {"a", " ", "\n"}

isdigit(c) == c \in Digits
isspace(c) == c \in {" ", "\n"}

Take(s, n) == SubSeq(s, 1, IF Len(s) < n THEN Len(s) ELSE n)

\* str.split("\n")
RECURSIVE split(_)
split(s) ==
    IF \A i \in 1..Len(s) : s[i] # "\n" THEN <<s>>
    ELSE LET i == CHOOSE j \in 1..Len(s) :
                     s[j] = "\n" /\ \A k \in 1..(j - 1) : s[k] # "\n"
         IN  <<SubSeq(s, 1, i - 1)>> \o split(SubSeq(s, i + 1, Len(s)))

\* str.strip()
RECURSIVE lstrip(_)
lstrip(s) == IF s # <<>> /\ isspace(s[1]) THEN lstrip(Tail(s)) ELSE s
RECURSIVE rstrip(_)
rstrip(s) ==
    IF s # <<>> /\ isspace(s[Len(s)]) THEN rstrip(SubSeq(s, 1, Len(s) - 1)) ELSE s
strip(s) == rstrip(lstrip(s))

\* Variant: the digit is looked for in the stripped line.
is_step_stripped(line) ==
    /\ strip(line) # <<>>
    /\ \E i \in 1..Len(Take(strip(line), 3)) : isdigit(strip(line)[i])

\* The list comprehension of planner: the lines kept as steps.
is_step(line) ==
    /\ strip(line) # <<>>
    /\ \E i \in 1..Len(Take(line, 3)) : isdigit(line[i])

RECURSIVE parse_steps(_)
parse_steps(lines) ==
    IF lines = <<>> THEN <<>>
    ELSE (IF is_step(lines[1]) THEN <<strip(lines[1])>> ELSE <<>>)
         \o parse_steps(Tail(lines))

planner_prompt(st) == [kind |-> "plan", task |-> st.input]

planner(st, content) ==
    [plan |-> parse_steps(split(content)), current_step |-> 0, results |-> <<>>,
     reflection_iterations |-> 0]

MAX_REFLECTION_ITERATIONS == 2

\* The keys of PlanExecuteReflectState annotated with operator.add.
plan_added == {"results"}

plan_initial_state ==
    [input |-> "task", plan |-> <<>>, current_step |-> 0, results |-> <<>>,
     draft |-> <<>>, critique |-> <<>>, reflection_iterations |-> 0,
     final_output |-> <<>>]

\* Variant: only the previous step's result is passed on.
executor_prompt_last(st) ==
    [kind |-> "execute",
     previous |-> IF st.results = <<>> THEN <<>> ELSE <<Last(st.results)>>,
     step |-> st.plan[st.current_step + 1]]

executor_prompt(st) ==
    [kind |-> "execute", previous |-> st.results, step |-> st.plan[st.current_step + 1]]

\* The reply of the LLM to an executor prompt: an answer to the step it was
\* asked to execute.
executor_reply(st, text) == [re |-> executor_prompt(st).step, text |-> text]

\* Variant: the executor returns the whole list of results, which the
\* operator.add reducer appends to the list again.
executor_whole_list(st, content) ==
    IF st.current_step >= Len(st.plan) THEN EmptyDict
    ELSE [results |-> st.results \o
                      <<[label |-> st.current_step + 1, content |-> content]>>,
          current_step |-> st.current_step + 1]

executor(st, content) ==
    IF st.current_step >= Len(st.plan) THEN EmptyDict
    ELSE [results |-> <<[label |-> st.current_step + 1, content |-> content]>>,
          current_step |-> st.current_step + 1]

\* Variant: the last step is never executed.
should_continue_execution_early(st) ==
    IF st.current_step + 1 < Len(st.plan) THEN "executor" ELSE "generator"

should_continue_execution(st) ==
    IF st.current_step < Len(st.plan) THEN "executor" ELSE "generator"

plan_generator_prompt(st) ==
    IF st.reflection_iterations = 0
    THEN [kind |-> "synthesize", task |-> st.input, results |-> st.results]
    ELSE [kind |-> "improve", task |-> st.input, draft |-> st.draft,
          critique |-> st.critique]

plan_generator(st, content) == [draft |-> content]

plan_critic_prompt(st) == [kind |-> "evaluate", task |-> st.input, draft |-> st.draft]

plan_critic(st, content) ==
    [critique |-> content, reflection_iterations |-> st.reflection_iterations + 1]

\* A critique is a sequence of words; str.upper() word by word.
upper(w) ==
    CASE w = "approved" -> "APPROVED"
      [] w = "not" -> "NOT"
      [] w = "improve" -> "IMPROVE"
      [] w = "good" -> "GOOD"
      [] OTHER -> w

\* "APPROVED" in text, for a text of upper-cased words.
contains_APPROVED(words) ==
    \E i \in 1..Len(words) : words[i] \in {"APPROVED", "APPROVED:"}

plan_should_refine(st) ==
    IF contains_APPROVED([i \in 1..Len(st.critique) |-> upper(st.critique[i])])
    THEN "finalizer"
    ELSE IF st.reflection_iterations >= MAX_REFLECTION_ITERATIONS THEN "finalizer"
    ELSE "generator"

\* Variant: the finalizer returns the final_output it was given.
plan_finalizer_stale(st) == [final_output |-> st.final_output]

plan_finalizer(st) == [final_output |-> st.draft]

\* plan_execute_reflect_builder's edges.
plan_execute_reflect_builder(node, st) ==
    CASE node = "START" -> "planner"
      [] node = "planner" -> "executor"
      [] node = "executor" -> should_continue_execution(st)
      [] node = "generator" -> "critic"
      [] node = "critic" -> plan_should_refine(st)
      [] node = "finalizer" -> "END"

\* The lines the planner's LLM writes in the workflow, and its responses:
\* up to MaxPlanLines of them joined by newlines.
PlanLines == {<<"1", "a">>, <<" ", "2", " ">>, <<"a">>}

RECURSIVE join(_)
join(lines) ==
    IF Len(lines) <= 1 THEN (IF lines = <<>> THEN <<>> ELSE lines[1])
    ELSE lines[1] \o <<"\n">> \o join(Tail(lines))

PlanResponses ==
    {join(ls) : ls \in UNION {[1..n -> PlanLines] : n \in 0..MaxPlanLines}}

\* The critiques the plan-execute critic's LLM writes.
Critiques == {<<"APPROVED:", "good">>, <<"improve">>, <<"not", "approved">>}

Planner ==
    /\ wf = "plan_execute" /\ pc = "planner"
    /\ \E content \in PlanResponses :
        /\ state' = Merge(state, planner(state, content), plan_added)
        /\ prompt' = planner_prompt(state)
        /\ replies' = Replied(replies, "planner", content)
        /\ history' = Append(history, [node |-> "planner", llm |-> TRUE])
        /\ pc' = plan_execute_reflect_builder("planner", state')
    /\ UNCHANGED <<wf, scoreVars, plannerVars, agentVars, serviceVars>>

Executor ==
    /\ wf = "plan_execute" /\ pc = "executor"
    /\ IF state.current_step >= Len(state.plan)
       THEN /\ state' = Merge(state, executor(state, None), plan_added)
            /\ history' = Append(history, [node |-> "executor", llm |-> FALSE])
            /\ UNCHANGED <<prompt, replies>>
       ELSE \E text \in Texts :
            /\ state' = Merge(state, executor(state, executor_reply(state, text)),
                              plan_added)
            /\ prompt' = executor_prompt(state)
            /\ replies' = Replied(replies, "executor", executor_reply(state, text))
            /\ history' = Append(history, [node |-> "executor", llm |-> TRUE])
    /\ pc' = plan_execute_reflect_builder("executor", state')
    /\ UNCHANGED <<wf, scoreVars, plannerVars, agentVars, serviceVars>>

PlanGenerator ==
    /\ wf = "plan_execute" /\ pc = "generator"
    /\ \E content \in Texts :
        /\ state' = Merge(state, plan_generator(state, content), plan_added)
        /\ prompt' = plan_generator_prompt(state)
        /\ replies' = Replied(replies, "generator", content)
        /\ history' = Append(history, [node |-> "generator", llm |-> TRUE])
        /\ pc' = plan_execute_reflect_builder("generator", state')
    /\ UNCHANGED <<wf, scoreVars, plannerVars, agentVars, serviceVars>>

PlanCritic ==
    /\ wf = "plan_execute" /\ pc = "critic"
    /\ \E content \in Critiques :
        /\ state' = Merge(state, plan_critic(state, content), plan_added)
        /\ prompt' = plan_critic_prompt(state)
        /\ replies' = Replied(replies, "critic", content)
        /\ history' = Append(history, [node |-> "critic", llm |-> TRUE])
        /\ pc' = plan_execute_reflect_builder("critic", state')
    /\ UNCHANGED <<wf, scoreVars, plannerVars, agentVars, serviceVars>>

PlanFinalizer ==
    /\ wf = "plan_execute" /\ pc = "finalizer"
    /\ state' = Merge(state, plan_finalizer(state), plan_added)
    /\ history' = Append(history, [node |-> "finalizer", llm |-> FALSE])
    /\ pc' = plan_execute_reflect_builder("finalizer", state')
    /\ UNCHANGED <<wf, prompt, replies, scoreVars, plannerVars, agentVars, serviceVars>>

(***************************************************************************)
(* LangGraph Basics/stateful_agent.py and agentic_rag_system.py            *)
(***************************************************************************)
\* The tools bound to the LLM in each script.
tools(a) ==
    IF a = "stateful_agent" THEN {"get_weather", "define_word", "web_search"}
    ELSE {"retrieve_python_docs"}

HumanMessage(content) == [type |-> "human", content |-> content, tool_calls |-> <<>>]
AIMessage(content, calls) == [type |-> "ai", content |-> content, tool_calls |-> calls]
ToolMessage(name, content, status) ==
    [type |-> "tool", name |-> name, content |-> content, status |-> status,
     tool_calls |-> <<>>]

\* How a call of a capability ends: it returns a text or it raises.
Returned(text) == [raised |-> FALSE, text |-> text]
Raised(exc) == [raised |-> TRUE, text |-> exc]

\* What a call can meet: the key it is asked for, the library, the service.
ToolEnv(name) ==
    CASE name = "get_weather" -> {"known_city", "unknown_city"}
      [] name = "define_word" -> {"known_word", "unknown_word"}
      [] name = "web_search" -> {"results", "no_results", "import_error", "exception"}
      [] name = "retrieve_python_docs" -> {"cache_hit", "docs", "no_docs", "exception"}

\* get_weather: an unknown city gets the default weather.
get_weather(env) ==
    Returned(IF env = "known_city" THEN "Weather in city" ELSE "Weather in city: default")

\* define_word: an unknown word gets "Definition not found".
define_word(env) ==
    Returned(IF env = "known_word" THEN "Definition of word"
             ELSE "Definition not found in dictionary.")

\* web_search: the whole body is inside try; both handlers return a text.
web_search(env) ==
    CASE env = "results" -> Returned("Web Search Results")
      [] env = "no_results" -> Returned("No results found")
      [] env = "import_error" -> Returned("DuckDuckGo search not available!")
      [] env = "exception" -> Returned("Search error")

\* retrieve_python_docs: no try; an exception of embeddings.embed_query or
\* retriever.invoke leaves the function.
retrieve_python_docs(env) ==
    CASE env = "cache_hit" -> Returned("cached_result")
      [] env = "docs" -> Returned("formatted")
      [] env = "no_docs" -> Returned("No relevant Python documentation found.")
      [] env = "exception" -> Raised("Exception")

\* The @tool of that name, called.
run_tool(name, env) ==
    CASE name = "get_weather" -> get_weather(env)
      [] name = "define_word" -> define_word(env)
      [] name = "web_search" -> web_search(env)
      [] name = "retrieve_python_docs" -> retrieve_python_docs(env)

\* assistant: the node returns the LLM's response as the one new message.
assistant(msgs, llm_response) == [messages |-> <<llm_response>>]

\* Variant: every response goes to the tool stage.
should_continue_always(msgs) == "tools"

\* Variant: the route is decided on the response's text.
should_continue_by_content(msgs) ==
    IF Last(msgs).content = "" THEN "tools" ELSE "__end__"

should_continue(msgs) ==
    IF Last(msgs).tool_calls # <<>> THEN "tools" ELSE "__end__"

\* builder's edges (the same in both scripts).
builder(node, msgs) ==
    CASE node = "START" -> "assistant"
      [] node = "assistant" ->
            (IF should_continue(msgs) = "tools" THEN "tools" ELSE "END")
      [] node = "tools" -> "assistant"

\* What the LLM can answer: text (possibly empty) and a list of tool calls.
AIContents == {"", "answer"}
ToolCallLists(a) == UNION {[1..n -> tools(a)] : n \in 0..MaxToolCalls}
\* ToolNode's handling of an exception a tool raised: it answers the call
\* with an error ToolMessage, or lets the exception leave the graph; which
\* one depends on the installed langgraph.
handle_tool_errors == {TRUE, FALSE}

\* query_agent up to agent.invoke: a new user turn on the thread, and the
\* graph starts. The thread keeps the messages of the earlier calls.
QueryAgent ==
    /\ apc = "idle" \/ (apc = "END" /\ report # <<>>)
    /\ Len(messages) + 2 <= MaxMessages
    /\ messages' = messages \o <<HumanMessage("user_input")>>
    /\ apc' = builder("START", messages')
    /\ ahistory' = <<>>
    /\ report' = <<>>
    /\ UNCHANGED <<agent, raised, refineVars, scoreVars, plannerVars, serviceVars>>

\* The assistant node. (In agentic_rag_system it first waits in the rate
\* limiter, which delays the call and touches no graph state.)
Assistant ==
    /\ apc = "assistant"
    /\ \E content \in AIContents, calls \in ToolCallLists(agent) :
        /\ Len(messages) + 1 + Len(calls) + (IF calls = <<>> THEN 0 ELSE 1) <= MaxMessages
        /\ messages' = messages \o assistant(messages, AIMessage(content, calls)).messages
    /\ apc' = builder("assistant", messages')
    /\ ahistory' = Append(ahistory, "assistant")
    /\ UNCHANGED <<agent, raised, report, refineVars, scoreVars, plannerVars,
                   serviceVars>>

\* ToolNode(tools): runs every tool call of the last message, one ToolMessage
\* each. A tool that raises is answered with an error ToolMessage, or the
\* exception leaves agent.invoke and the node writes nothing.
Tools ==
    /\ apc = "tools"
    /\ ~raised
    /\ LET calls == Last(messages).tool_calls
       IN  \E envs \in [1..Len(calls) -> UNION {ToolEnv(t) : t \in tools(agent)}],
              handled \in handle_tool_errors :
            LET outs == [i \in 1..Len(calls) |-> run_tool(calls[i], envs[i])]
                escapes == ~handled /\ \E i \in 1..Len(calls) : outs[i].raised
            IN  /\ \A i \in 1..Len(calls) : envs[i] \in ToolEnv(calls[i])
                /\ raised' = escapes
                /\ messages' =
                     IF escapes THEN messages
                     ELSE messages \o
                          [i \in 1..Len(calls) |->
                              ToolMessage(calls[i], outs[i].text,
                                  IF outs[i].raised THEN "error" ELSE "success")]
                /\ apc' = IF escapes THEN apc ELSE builder("tools", messages')
    /\ ahistory' = Append(ahistory, "tools")
    /\ UNCHANGED <<agent, report, refineVars, scoreVars, plannerVars, serviceVars>>

\* The largest element of a non-empty set of indices.
Max(S) == CHOOSE i \in S : \A j \in S : j <= i

\* query_agent after agent.invoke: the loop over result["messages"], which
\* are all the messages of the thread. used_tool is <<>> for None / False,
\* final_answer is <<>> for None (stateful_agent prints its answers and
\* returns nothing; the last one it prints is final_answer).
query_agent_scan(a, msgs) ==
    LET with_calls == {i \in 1..Len(msgs) :
                          msgs[i].type = "ai" /\ msgs[i].tool_calls # <<>>}
        answers == {i \in 1..Len(msgs) :
                       /\ msgs[i].type = "ai" /\ msgs[i].content # ""
                       /\ msgs[i].tool_calls = <<>>}
    IN  [used_tool |-> IF with_calls = {} THEN <<>>
                       ELSE IF a = "stateful_agent"
                       THEN <<msgs[Max(with_calls)].tool_calls[1]>>
                       ELSE <<"retrieval">>,
         final_answer |-> IF answers = {} THEN <<>>
                          ELSE <<msgs[Max(answers)].content>>]

\* query_agent from the return of agent.invoke to its own return.
QueryAgentReport ==
    /\ apc = "END" /\ report = <<>>
    /\ report' = <<query_agent_scan(agent, messages)>>
    /\ UNCHANGED <<agent, apc, messages, ahistory, raised, refineVars, scoreVars,
                   plannerVars, serviceVars>>

(***************************************************************************)
(* LangGraph Basics/customer_support_chatbot.py                            *)
(***************************************************************************)
\* The session ids test_memory_across_sessions uses.
SessionIds == {"customer_a", "customer_b"}

\* memory = MemorySaver(): no thread holds a message yet.
MemorySaver == [thread_id \in SessionIds |-> <<>>]

\* customer_support_agent: the LLM sees the system prompt and the thread's
\* messages; the node returns its response as the one new message.
customer_support_agent(msgs, llm_response) == [messages |-> <<llm_response>>]

\* chatbot.invoke on a thread: the checkpointer loads the thread's messages,
\* the input is appended, START -> agent -> END runs, and the thread is saved.
\* The result is the final state.
chatbot_invoke(store, input, thread_id, llm_content) ==
    LET loaded == store[thread_id] \o input.messages
        update == customer_support_agent(loaded, AIMessage(llm_content, <<>>))
        final == loaded \o update.messages
    IN  [store |-> [store EXCEPT ![thread_id] = final], messages |-> final]

\* Variant: every call runs on the thread of customer_a.
send_message_one_thread(store, user_input, session_id, llm_content) ==
    LET result == chatbot_invoke(store, [messages |-> <<HumanMessage(user_input)>>],
                                 "customer_a", llm_content)
    IN  [store |-> result.store, returned |-> Last(result.messages).content]

\* send_message: invokes the chatbot on the thread of session_id and returns
\* the last message's content.
send_message(store, user_input, session_id, llm_content) ==
    LET result == chatbot_invoke(store, [messages |-> <<HumanMessage(user_input)>>],
                                 session_id, llm_content)
    IN  [store |-> result.store, returned |-> Last(result.messages).content]

SendMessage ==
    /\ Len(sent) < MaxCalls
    /\ \E session_id \in SessionIds, user_input \in Texts, llm_content \in Texts :
        LET call == send_message(threads, user_input, session_id, llm_content)
        IN  /\ threads' = call.store
            /\ sent' = Append(sent, [session_id |-> session_id,
                                     user_input |-> user_input,
                                     returned |-> call.returned])
    /\ UNCHANGED <<workflowVars, utilVars, xmasVars, apiVars, startVars, chunkVars>>

(***************************************************************************)
(* christmas_based_rag/backend/main.py                                     *)
(***************************************************************************)
\* str.lower() and str.rstrip(chars) on the model's texts, whose upper-case
\* letters are these.
ascii_lowercase ==
    [c \in {"A", "G", "H", "I", "P", "R"} |->
        CASE c = "A" -> "a" [] c = "G" -> "g" [] c = "H" -> "h"
          [] c = "I" -> "i" [] c = "P" -> "p" [] c = "R" -> "r"]
lower(s) ==
    [i \in 1..Len(s) |->
        IF s[i] \in DOMAIN ascii_lowercase THEN ascii_lowercase[s[i]] ELSE s[i]]
RECURSIVE rstrip_chars(_, _)
rstrip_chars(s, cs) ==
    IF s # <<>> /\ s[Len(s)] \in cs
    THEN rstrip_chars(SubSeq(s, 1, Len(s) - 1), cs)
    ELSE s

greetings ==
    {<<"h", "i">>, <<"h", "e", "l", "l", "o">>, <<"h", "e", "y">>,
     <<"g", "r", "e", "e", "t", "i", "n", "g", "s">>}
is_greeting(query) == rstrip_chars(strip(lower(query)), {"!", "?", "."}) \in greetings

\* greeting_text.split(), shortened to its first words.
greeting_words == <<"Ho", "ho">>

\* The accepted n_results.
n_results_min == 1
n_results_max == 10

\* SearchRequest: the queries and n_results a client sends (history, which
\* only enters the LLM prompt, is left out).
Queries ==
    {<<>>, <<" ">>, <<" ", "\n">>, <<"a">>, <<" ", "a">>, <<"h", "i">>,
     <<"H", "i", "!">>}
SearchRequest(query, n_results) == [query |-> query, n_results |-> n_results]
SearchRequests ==
    {SearchRequest(q, n) :
        q \in Queries, n \in (n_results_min - NSpread)..(n_results_max + NSpread)}

\* Exceptions, and str(e).
HTTPException(status_code, detail) ==
    [type |-> "HTTPException", status_code |-> status_code, detail |-> detail]
Exception(type, msg) == [type |-> type, status_code |-> 0, detail |-> msg]
str_exc(e) ==
    CASE e.type = "HTTPException" /\ e.detail = "Query cannot be empty" ->
            "400: Query cannot be empty"
      [] e.type = "HTTPException" /\ e.detail = "n_results must be between 1 and 10" ->
            "400: n_results must be between 1 and 10"
      [] OTHER -> e.detail

\* A document's text is a sequence of words (what text.split() yields).
DocTexts == UNION {[1..n -> {"w"}] : n \in 0..MaxWords}
\* What collection.query does: it raises, or returns at most n documents.
StoreOutcomes(n) ==
    {[raised |-> TRUE, documents |-> <<>>]} \cup
    {[raised |-> FALSE, documents |-> d] :
        d \in UNION {[1..k -> DocTexts] : k \in 0..(IF n < MaxDocs THEN n ELSE MaxDocs)}}

\* ChristmasRAG.search
rag_search(query, n_results, store) ==
    IF strip(query) = <<>>
    THEN [raised |-> TRUE, exc |-> Exception("ValueError", "Query cannot be empty"),
          documents |-> <<>>, calls |-> <<>>]
    ELSE IF store.raised
    THEN [raised |-> TRUE, exc |-> Exception("Exception", "collection.query failed"),
          documents |-> <<>>, calls |-> <<"store">>]
    ELSE [raised |-> FALSE, exc |-> None, documents |-> store.documents,
          calls |-> <<"store">>]

ChunkResponse(text, section) == [text |-> text, section |-> section]
format_chunks(documents) ==
    [i \in 1..Len(documents) |-> ChunkResponse(documents[i], "section")]

\* What groq_client.chat.completions.create does in /search: it raises, or
\* returns the generated answer.
LLMOutcomes ==
    {[raised |-> TRUE, answer |-> <<>>], [raised |-> FALSE, answer |-> <<"answer">>]}

\* The body of search's try block: what it returns or raises, and the
\* external calls it made.
search_body(req, groq, store, llm) ==
    IF req.query = <<>> \/ strip(req.query) = <<>>
    THEN [raised |-> TRUE, exc |-> HTTPException(400, "Query cannot be empty"),
          chunks |-> <<>>, calls |-> <<>>]
    ELSE IF req.n_results < n_results_min \/ req.n_results > n_results_max
    THEN [raised |-> TRUE,
          exc |-> HTTPException(400, "n_results must be between 1 and 10"),
          chunks |-> <<>>, calls |-> <<>>]
    ELSE IF is_greeting(req.query)
    THEN [raised |-> FALSE, exc |-> None,
          chunks |-> <<ChunkResponse(greeting_words, "Greeting")>>, calls |-> <<>>]
    ELSE LET results == rag_search(req.query, req.n_results, store)
             found == format_chunks(results.documents)
         IN  IF results.raised
             THEN [raised |-> TRUE, exc |-> results.exc, chunks |-> <<>>,
                   calls |-> results.calls]
             ELSE IF groq # None /\ found # <<>>
             THEN [raised |-> FALSE, exc |-> None,
                   chunks |-> IF llm.raised THEN found
                              ELSE [found EXCEPT ![1] =
                                      ChunkResponse(llm.answer, "AI Generated Answer")],
                   calls |-> results.calls \o <<"llm">>]
             ELSE [raised |-> FALSE, exc |-> None, chunks |-> found,
                   calls |-> results.calls]

\* search: the try block and its handler, which turns every Exception the
\* body raised into an HTTPException with status 500.
search(req, groq, store, llm) ==
    LET body == search_body(req, groq, store, llm)
    IN  IF body.raised
        THEN [status_code |-> 500, detail |-> str_exc(body.exc), chunks |-> <<>>,
              calls |-> body.calls]
        ELSE [status_code |-> 200, detail |-> "", chunks |-> body.chunks,
              calls |-> body.calls]

\* POST /search. The handler keeps no state between requests, so one request
\* is served per behaviour.
Search ==
    /\ xresponse = <<>>
    /\ \E req \in SearchRequests, llm \in LLMOutcomes :
       \E store \in StoreOutcomes(req.n_results) :
        LET r == search(req, groq_client, store, llm)
        IN  /\ request' = <<req>>
            /\ xresponse' = <<[status_code |-> r.status_code, detail |-> r.detail,
                               chunks |-> r.chunks]>>
            /\ xcalls' = r.calls
    /\ UNCHANGED <<groq_client, events, spc, pending, chunks, workflowVars, utilVars,
                   chatVars, apiVars, startVars, chunkVars>>

\* The events of the response stream.
TokenEvent(token, from) == [kind |-> "token", token |-> token, from |-> from]
ChunksEvent(found) == [kind |-> "chunks", token |-> found, from |-> "store"]
DoneEvent(from) == [kind |-> "done", token |-> <<>>, from |-> from]
ErrorEvent(error) == [kind |-> "error", token |-> error, from |-> "error"]

\* event_generator from its first line to its first yield.
gen_start(req, groq, store) ==
    IF req.query = <<>> \/ strip(req.query) = <<>>
    THEN [event |-> ErrorEvent("Query cannot be empty"), spc |-> "closed",
          pending |-> <<>>, chunks |-> <<>>, calls |-> <<>>]
    ELSE IF is_greeting(req.query)
    THEN [event |-> TokenEvent(greeting_words[1], "greeting"), spc |-> "greeting",
          pending |-> Tail(greeting_words), chunks |-> <<>>, calls |-> <<>>]
    ELSE LET results == rag_search(req.query, req.n_results, store)
             found == format_chunks(results.documents)
         IN  IF results.raised
             THEN [event |-> ErrorEvent(str_exc(results.exc)), spc |-> "closed",
                   pending |-> <<>>, chunks |-> <<>>, calls |-> results.calls]
             ELSE IF groq # None /\ found # <<>>
             THEN [event |-> ChunksEvent(found), spc |-> "llm", pending |-> <<>>,
                   chunks |-> found, calls |-> results.calls]
             ELSE [event |-> ChunksEvent(found), spc |-> "fallback",
                   pending |-> IF found # <<>> THEN found[1].text
                               ELSE <<"No", "information", "found.">>,
                   chunks |-> found, calls |-> results.calls]

\* Variant: the loop over the words ends the generator without a last event.
gen_words_silent(words, from, at) ==
    IF words # <<>>
    THEN [event |-> <<TokenEvent(words[1], from)>>, spc |-> at, pending |-> Tail(words)]
    ELSE [event |-> <<>>, spc |-> "closed", pending |-> <<>>]

\* The loops that stream a text word by word (the greeting, the first chunk):
\* the next word, or the done event after the last one.
gen_words(words, from, at) ==
    IF words # <<>>
    THEN [event |-> <<TokenEvent(words[1], from)>>, spc |-> at, pending |-> Tail(words)]
    ELSE [event |-> <<DoneEvent(from)>>, spc |-> "closed", pending |-> <<>>]

\* What the Groq stream does when the generator asks it for more: a token,
\* its end, or an exception (of create or of the iteration).
GroqStream == {"token", "end", "raises"}

\* The try block that streams the LLM's answer, and its handler, which falls
\* back to the words of the first chunk.
gen_llm(found, groq_stream) ==
    CASE groq_stream = "token" ->
            [event |-> <<TokenEvent("token", "llm")>>, spc |-> "llm", pending |-> <<>>]
      [] groq_stream = "end" ->
            [event |-> <<DoneEvent("llm")>>, spc |-> "closed", pending |-> <<>>]
      [] groq_stream = "raises" -> gen_words(found[1].text, "fallback", "fallback")

LLMTokens(evs) ==
    Cardinality({i \in 1..Len(evs) : evs[i].kind = "token" /\ evs[i].from = "llm"})

\* POST /search/stream: the handler returns the StreamingResponse over a new
\* event_generator. One request is served per behaviour.
SearchStream ==
    /\ spc = "idle"
    /\ \E req \in SearchRequests : request' = <<req>>
    /\ spc' = "start"
    /\ UNCHANGED <<groq_client, xresponse, xcalls, events, pending, chunks,
                   workflowVars, utilVars, chatVars, apiVars, startVars, chunkVars>>

\* The response iterates event_generator; each action below runs it up to its
\* next yield, or, after the last yield, to its end.
GenStart ==
    /\ spc = "start"
    /\ \E store \in StoreOutcomes(request[1].n_results) :
        LET g == gen_start(request[1], groq_client, store)
        IN  /\ events' = <<g.event>>
            /\ spc' = g.spc
            /\ pending' = g.pending
            /\ chunks' = g.chunks
            /\ xcalls' = g.calls
    /\ UNCHANGED <<groq_client, request, xresponse, workflowVars, utilVars, chatVars,
                   apiVars, startVars, chunkVars>>

GenGreeting ==
    /\ spc = "greeting"
    /\ LET g == gen_words(pending, "greeting", "greeting")
       IN  /\ events' = events \o g.event
           /\ spc' = g.spc
           /\ pending' = g.pending
    /\ UNCHANGED <<groq_client, request, xresponse, xcalls, chunks, workflowVars,
                   utilVars, chatVars, apiVars, startVars, chunkVars>>

GenLLM ==
    /\ spc = "llm"
    /\ \E groq_stream \in GroqStream :
        /\ groq_stream = "token" => LLMTokens(events) < MaxTokens
        /\ LET g == gen_llm(chunks, groq_stream)
           IN  /\ events' = events \o g.event
               /\ spc' = g.spc
               /\ pending' = g.pending
    /\ xcalls' = IF LLMTokens(events) = 0 /\ Last(xcalls) # "llm"
                 THEN Append(xcalls, "llm") ELSE xcalls
    /\ UNCHANGED <<groq_client, request, xresponse, chunks, workflowVars, utilVars,
                   chatVars, apiVars, startVars, chunkVars>>

GenFallback ==
    /\ spc = "fallback"
    /\ LET g == gen_words(pending, "fallback", "fallback")
       IN  /\ events' = events \o g.event
           /\ spc' = g.spc
           /\ pending' = g.pending
    /\ UNCHANGED <<groq_client, request, xresponse, xcalls, chunks, workflowVars,
                   utilVars, chatVars, apiVars, startVars, chunkVars>>

(***************************************************************************)
(* Production_RAG/api.py and rag_core.py                                   *)
(***************************************************************************)
\* QueryRequest
QueryRequest(question, top_k) == [question |-> question, top_k |-> top_k]
QueryRequests == {QueryRequest(q, k) : q \in Texts, k \in 0..MaxTopK}

\* RAGGenerator.__init__'s top_k, which startup_event leaves at its default.
RAGGenerator_top_k == 3
\* The number of documents a similarity search for k documents returns from
\* a store of StoreSize chunks.
Min(a, b) == IF a < b THEN a ELSE b
similarity_search(k) == Min(k, StoreSize)

\* What a component the handler calls does: it returns, or raises an
\* exception with a message.
Outcomes == {[raised |-> FALSE, msg |-> ""]} \cup
            {[raised |-> TRUE, msg |-> e] : e \in {"connection error", "rate limit"}}

\* A handler's return value, an HTTPException it raised, and an exception it
\* let through (the server answers "Internal Server Error", without detail).
\* failure is the message of the error that made the request fail, if any.
\* retrieved is the number of chunks the request made the store return.
Ok(body) ==
    [status_code |-> 200, has_detail |-> FALSE, detail |-> "", body |-> body,
     failure |-> "", retrieved |-> 0]
HTTPError(exc, failure) ==
    [status_code |-> exc.status_code, has_detail |-> TRUE, detail |-> exc.detail,
     body |-> "detail", failure |-> failure, retrieved |-> 0]
Unhandled(failure) ==
    [status_code |-> 500, has_detail |-> FALSE, detail |-> "",
     body |-> "Internal Server Error", failure |-> failure, retrieved |-> 0]

\* VectorStoreManager.search
VectorStoreManager_search(manager, outcome) ==
    IF manager = "unloaded"
    THEN [raised |-> TRUE,
          exc |-> Exception("ValueError",
                            "No vector store loaded. Create or load one first.")]
    ELSE IF outcome.raised
    THEN [raised |-> TRUE, exc |-> Exception("Exception", outcome.msg)]
    ELSE [raised |-> FALSE, exc |-> Exception("None", "")]

\* VectorStoreManager.get_stats: without a store it returns an error dict.
VectorStoreManager_get_stats(manager, outcome) ==
    IF manager = "unloaded"
    THEN [raised |-> FALSE, value |-> "error: No vector store loaded"]
    ELSE IF outcome.raised THEN [raised |-> TRUE, value |-> outcome.msg]
    ELSE [raised |-> FALSE, value |-> "total_chunks"]

\* RAGGenerator.query: rag_chain.invoke(question) runs the retriever that
\* _build_rag_chain built with self.top_k; the number of chunks it retrieves.
RAGGenerator_query(req) == similarity_search(RAGGenerator_top_k)

\* POST /query
query(generator, req, outcome) ==
    IF generator = None
    THEN HTTPError(HTTPException(500, "RAG system not initialized"),
                   "RAG system not initialized")
    ELSE IF outcome.raised
    THEN HTTPError(HTTPException(500, str_exc(Exception("Exception", outcome.msg))),
                   outcome.msg)
    ELSE [Ok("QueryResponse") EXCEPT !.retrieved = RAGGenerator_query(req)]

\* POST /search
api_search(manager, req, outcome) ==
    IF manager = None
    THEN HTTPError(HTTPException(500, "Vector store not initialized"),
                   "Vector store not initialized")
    ELSE LET result == VectorStoreManager_search(manager, outcome)
         IN  IF result.raised
             THEN HTTPError(HTTPException(500, str_exc(result.exc)), result.exc.detail)
             ELSE [Ok("SearchResponse") EXCEPT
                       !.retrieved = similarity_search(req.top_k)]

\* GET /stats: no try around get_stats.
get_stats(manager, outcome) ==
    IF manager = None
    THEN HTTPError(HTTPException(500, "Vector store not initialized"),
                   "Vector store not initialized")
    ELSE LET result == VectorStoreManager_get_stats(manager, outcome)
         IN  IF result.raised THEN Unhandled(result.value)
             ELSE IF manager = "unloaded" THEN
                 [Ok(result.value) EXCEPT !.failure = "No vector store loaded"]
             ELSE Ok(result.value)

\* startup_event: each constructor can raise; the globals assigned before the
\* exception keep their values and the server exits.
StartupOutcomes == {"VectorStoreManager raises", "load_vectorstore raises",
                    "RAGGenerator raises", "loaded"}
startup_event(outcome) ==
    CASE outcome = "VectorStoreManager raises" ->
            [app |-> "exited", vectorstore_manager |-> None, rag_generator |-> None]
      [] outcome = "load_vectorstore raises" ->
            [app |-> "exited", vectorstore_manager |-> "unloaded", rag_generator |-> None]
      [] outcome = "RAGGenerator raises" ->
            [app |-> "exited", vectorstore_manager |-> "loaded", rag_generator |-> None]
      [] outcome = "loaded" ->
            [app |-> "serving", vectorstore_manager |-> "loaded",
             rag_generator |-> "RAGGenerator"]

Startup ==
    /\ app = "created"
    /\ \E outcome \in StartupOutcomes :
        LET after == startup_event(outcome)
        IN  /\ app' = after.app
            /\ vectorstore_manager' = after.vectorstore_manager
            /\ rag_generator' = after.rag_generator
    /\ UNCHANGED <<api_response, workflowVars, utilVars, chatVars, xmasVars,
                   startVars, chunkVars>>

\* The handlers answer as long as the app has not exited: also when it is
\* driven without its startup event (globals still None).
ApiQuery ==
    /\ app \in {"created", "serving"}
    /\ \E req \in QueryRequests, outcome \in Outcomes :
        api_response' = <<[path |-> "/query", request |-> req,
                           response |-> query(rag_generator, req, outcome)]>>
    /\ UNCHANGED <<app, vectorstore_manager, rag_generator, workflowVars, utilVars,
                   chatVars, xmasVars, startVars, chunkVars>>

ApiSearch ==
    /\ app \in {"created", "serving"}
    /\ \E req \in QueryRequests, outcome \in Outcomes :
        api_response' = <<[path |-> "/search", request |-> req,
                           response |-> api_search(vectorstore_manager, req, outcome)]>>
    /\ UNCHANGED <<app, vectorstore_manager, rag_generator, workflowVars, utilVars,
                   chatVars, xmasVars, startVars, chunkVars>>

ApiStats ==
    /\ app \in {"created", "serving"}
    /\ \E outcome \in Outcomes :
        api_response' = <<[path |-> "/stats", request |-> QueryRequest(<<>>, 0),
                           response |-> get_stats(vectorstore_manager, outcome)]>>
    /\ UNCHANGED <<app, vectorstore_manager, rag_generator, workflowVars, utilVars,
                   chatVars, xmasVars, startVars, chunkVars>>

(***************************************************************************)
(* Startup: the scripts' handling of their provider API key                *)
(***************************************************************************)
\* The scripts that read an API key themselves, and the variable each reads.
Scripts ==
    {"adaptive_refelction", "plan_execute", "content_pipeline", "stateful_agent",
     "agentic_rag_system", "customer_support_chatbot", "utils_openai",
     "christmas_backend"}
EnvVars == {"GOOGLE_API_KEY", "GROQ_API_KEY", "OPENAI_API_KEY"}
provider_key(sc) ==
    CASE sc \in {"adaptive_refelction", "plan_execute", "stateful_agent",
                 "customer_support_chatbot"} -> "GOOGLE_API_KEY"
      [] sc \in {"agentic_rag_system", "content_pipeline", "christmas_backend"} ->
            "GROQ_API_KEY"
      [] sc = "utils_openai" -> "OPENAI_API_KEY"

\* Variant: the key is read and not checked.
key_check_missing(sc, env) == [phase |-> "running", client |-> "llm"]

\* `if not api_key: raise ValueError(...)` at the top of the module (in
\* utils_openai: in setup_openai_api, which its users call first).
key_check(sc, env) ==
    IF provider_key(sc) \notin env
    THEN [phase |-> "raised", client |-> None]
    ELSE [phase |-> "running", client |-> "llm"]

\* The Christmas backend builds the Groq client inside try/except: without
\* the key the constructor raises, the handler prints a warning and the
\* module goes on with groq_client = None.
groq_client_init(env) ==
    [phase |-> "running",
     client |-> IF "GROQ_API_KEY" \in env THEN "Groq" ELSE None]

\* The module's top-level code, up to the point where nodes or handlers run.
startup(sc, env) ==
    IF sc = "christmas_backend" THEN groq_client_init(env) ELSE key_check(sc, env)

Import ==
    /\ phase = "import"
    /\ phase' = startup(script, environ).phase
    /\ client' = startup(script, environ).client
    /\ UNCHANGED <<script, environ, nodes_run, llm_calls, workflowVars, utilVars,
                   chatVars, xmasVars, apiVars, chunkVars>>

\* A graph node or a request handler runs; it calls the provider only
\* through the client (the handlers test `if groq_client`).
RunNode ==
    /\ phase = "running"
    /\ nodes_run < MaxNodes
    /\ nodes_run' = nodes_run + 1
    /\ \E calls_llm \in BOOLEAN :
        llm_calls' = IF calls_llm /\ client # None THEN llm_calls + 1 ELSE llm_calls
    /\ UNCHANGED <<script, environ, phase, client, workflowVars, utilVars, chatVars,
                   xmasVars, apiVars, chunkVars>>

(***************************************************************************)
(* rag_task_mrchris.py                                                     *)
(***************************************************************************)
\* The texts to chunk: a letter, a sentence end, a blank and the newline.
ChunkChars == {"a", ".", " ", "\n"}
ChunkTexts == UNION {[1..n -> ChunkChars] : n \in 0..MaxTextLen}

\* re.split(r'(?<=[.!?])\s+', text): the text is cut at every run of
\* whitespace that follows a sentence end; the run is dropped.
IsCut(s, i) == i > 1 /\ isspace(s[i]) /\ s[i - 1] \in {".", "!", "?"}
RECURSIVE skip_space(_, _)
skip_space(s, i) == IF i <= Len(s) /\ isspace(s[i]) THEN skip_space(s, i + 1) ELSE i
RECURSIVE re_split(_)
re_split(s) ==
    IF \A i \in 1..Len(s) : ~IsCut(s, i) THEN <<s>>
    ELSE LET i == CHOOSE j \in 1..Len(s) :
                     IsCut(s, j) /\ \A k \in 1..(j - 1) : ~IsCut(s, k)
         IN  <<SubSeq(s, 1, i - 1)>> \o re_split(SubSeq(s, skip_space(s, i), Len(s)))

\* The loop of chunk_by_sentences and the lines after it.
RECURSIVE sentence_loop(_, _, _, _)
sentence_loop(sentences, max_chunk_size, out, current_chunk) ==
    IF sentences = <<>>
    THEN (IF current_chunk # <<>> THEN Append(out, strip(current_chunk)) ELSE out)
    ELSE LET sentence == sentences[1]
         IN  IF Len(current_chunk) + Len(sentence) > max_chunk_size
                /\ current_chunk # <<>>
             THEN sentence_loop(Tail(sentences), max_chunk_size,
                                Append(out, strip(current_chunk)), sentence)
             ELSE sentence_loop(Tail(sentences), max_chunk_size, out,
                                IF current_chunk # <<>>
                                THEN current_chunk \o <<" ">> \o sentence
                                ELSE sentence)

chunk_by_sentences(t, max_chunk_size) ==
    sentence_loop(re_split(t), max_chunk_size, <<>>, <<>>)

\* text.split('\n\n')
IsBreak(s, i) == i < Len(s) /\ s[i] = "\n" /\ s[i + 1] = "\n"
RECURSIVE split_paragraphs(_)
split_paragraphs(s) ==
    IF \A i \in 1..Len(s) : ~IsBreak(s, i) THEN <<s>>
    ELSE LET i == CHOOSE j \in 1..Len(s) :
                     IsBreak(s, j) /\ \A k \in 1..(j - 1) : ~IsBreak(s, k)
         IN  <<SubSeq(s, 1, i - 1)>> \o split_paragraphs(SubSeq(s, i + 2, Len(s)))

\* The loop of chunk_by_paragraphs and the lines after it.
RECURSIVE paragraph_loop(_, _, _, _)
paragraph_loop(paragraphs, min_chunk_size, out, current_chunk) ==
    IF paragraphs = <<>>
    THEN (IF current_chunk # <<>> THEN Append(out, strip(current_chunk)) ELSE out)
    ELSE LET para == strip(paragraphs[1])
         IN  IF para = <<>>
             THEN paragraph_loop(Tail(paragraphs), min_chunk_size, out, current_chunk)
             ELSE IF Len(para) < min_chunk_size
             THEN paragraph_loop(Tail(paragraphs), min_chunk_size, out,
                                 IF current_chunk # <<>>
                                 THEN current_chunk \o <<"\n", "\n">> \o para
                                 ELSE para)
             ELSE paragraph_loop(Tail(paragraphs), min_chunk_size,
                                 IF current_chunk # <<>>
                                 THEN Append(out, strip(current_chunk)) ELSE out,
                                 para)

chunk_by_paragraphs(t, min_chunk_size) ==
    paragraph_loop(split_paragraphs(t), min_chunk_size, <<>>, <<>>)

ChunkBySentences ==
    /\ chunked = <<>>
    /\ chunked' = <<[by |-> "sentences",
                     chunks |-> chunk_by_sentences(chunk_text, chunk_size)]>>
    /\ UNCHANGED <<chunk_text, chunk_size, workflowVars, utilVars, chatVars, xmasVars,
                   apiVars, startVars>>

ChunkByParagraphs ==
    /\ chunked = <<>>
    /\ chunked' = <<[by |-> "paragraphs",
                     chunks |-> chunk_by_paragraphs(chunk_text, chunk_size)]>>
    /\ UNCHANGED <<chunk_text, chunk_size, workflowVars, utilVars, chatVars, xmasVars,
                   apiVars, startVars>>

(***************************************************************************)
(* LangGraph Basics/agentic_rag_system.py: RateLimiter                     *)
(***************************************************************************)
\* rate_limiter = RateLimiter(calls_per_minute=4), buffer_seconds=2, and the
\* 60 seconds of wait_if_needed.
calls_per_minute == 4
buffer_seconds == 2
minute == 60

\* wait_if_needed called at current_time: the new call_times, and the time at
\* which the call returns (current_time, or the end of its sleep).
wait_if_needed(times, current_time) ==
    LET kept == SelectSeq(times, LAMBDA t : current_time - t < minute)
        wait_time == minute - (current_time - kept[1]) + buffer_seconds
    IN  IF Len(kept) >= calls_per_minute /\ wait_time > 0
        THEN [call_times |-> <<current_time + wait_time>>,
              returned |-> current_time + wait_time]
        ELSE [call_times |-> Append(kept, current_time), returned |-> current_time]

\* The seconds that pass between two calls of the limiter.
Elapsed == {5, 50}

\* Time passes between two calls.
Tick ==
    /\ \E d \in Elapsed :
        /\ now + d <= MaxClock
        /\ now' = now + d
    /\ UNCHANGED <<call_times, let_through, workflowVars, deployedVars, cacheVars,
                   pipelineVars>>

\* rate_limiter.wait_if_needed(), from its call to its return.
WaitIfNeeded ==
    /\ Len(let_through) < MaxLimiterCalls
    /\ LET w == wait_if_needed(call_times, now)
       IN  /\ w.returned <= MaxClock
           /\ call_times' = w.call_times
           /\ now' = w.returned
           /\ let_through' = Append(let_through, w.returned)
    /\ UNCHANGED <<workflowVars, deployedVars, cacheVars, pipelineVars>>

(***************************************************************************)
(* LangGraph Basics/agentic_rag_system.py: the semantic retrieval cache    *)
(***************************************************************************)
\* The embeddings of the queries: vectors with integer coordinates, some of
\* them close to each other, some not.
Embeddings == {<<1, 0>>, <<3, 1>>, <<2, 1>>, <<1, 1>>, <<0, 1>>}
\* embeddings.embed_query: a query is identified with the vector it embeds to.
embed_query(q) == q

dot(v1, v2) == v1[1] * v2[1] + v1[2] * v2[2]
\* threshold=0.92, in hundredths.
threshold == 92
\* cosine_similarity(v1, v2) >= threshold, without the square roots:
\* dot / (|v1| * |v2|) >= 92 / 100.
cosine_similarity_at_least(v1, v2, hundredths) ==
    /\ dot(v1, v2) > 0
    /\ 100 * 100 * dot(v1, v2) * dot(v1, v2) >=
            hundredths * hundredths * dot(v1, v1) * dot(v2, v2)

\* Variant: only the most recent entry is compared.
check_semantic_cache_last(cache, q) ==
    IF cache # <<>> /\ cosine_similarity_at_least(embed_query(q), Last(cache).embedding,
                                                  threshold)
    THEN <<Last(cache).result>>
    ELSE <<>>

\* check_semantic_cache: <<result>> of the first entry similar enough to the
\* query, <<>> for None.
check_semantic_cache(cache, q) ==
    LET hits == {i \in 1..Len(cache) :
                    cosine_similarity_at_least(embed_query(q), cache[i].embedding,
                                               threshold)}
    IN  IF hits = {} THEN <<>>
        ELSE <<cache[CHOOSE i \in hits : \A j \in hits : i <= j].result>>

\* What retriever.invoke returns for a query: no documents, or documents.
RetrieverResults(q) == {<<>>, <<"doc", q>>}

\* retrieve_python_docs: the cache after the call, whether the vector store
\* was queried, and the text returned.
retrieve_python_docs_cached(cache, q, results) ==
    LET cached_result == check_semantic_cache(cache, q)
    IN  IF cached_result # <<>>
        THEN [cache |-> cache, store_queried |-> FALSE, returned |-> cached_result[1]]
        ELSE IF results = <<>>
        THEN [cache |-> cache, store_queried |-> TRUE,
              returned |-> <<"No relevant Python documentation found.">>]
        ELSE [cache |-> Append(cache, [embedding |-> embed_query(q),
                                       result |-> results, query |-> q]),
              store_queried |-> TRUE, returned |-> results]

RetrievePythonDocs ==
    /\ Len(retrievals) < MaxRetrievals
    /\ \E q \in Embeddings :
       \E results \in RetrieverResults(q) :
        LET r == retrieve_python_docs_cached(retrieval_cache, q, results)
        IN  /\ retrieval_cache' = r.cache
            /\ retrievals' = Append(retrievals,
                                    [query |-> q, results |-> results,
                                     store_queried |-> r.store_queried,
                                     returned |-> r.returned])
    /\ UNCHANGED <<workflowVars, deployedVars, limiterVars, pipelineVars>>

(***************************************************************************)
(* Agents/content_pipeline.py: the tools                                   *)
(***************************************************************************)
\* `sub in s` for two strings.
str_in(sub, s) ==
    \E i \in 0..(Len(s) - Len(sub)) : SubSeq(s, i + 1, i + Len(sub)) = sub

important_terms ==
    <<
     <<"p", "y", "t", "h", "o", "n">>,
     <<"l", "a", "n", "g", "g", "r", "a", "p", "h">>,
     <<"m", "u", "l", "t", "i", "-", "a", "g", "e", "n", "t">>,
     <<"s", "y", "s", "t", "e", "m">>, <<"a", "g", "e", "n", "t">>,
     <<"t", "o", "o", "l">>, <<"r", "e", "s", "e", "a", "r", "c", "h">>,
     <<"d", "a", "t", "a">>, <<"a", "n", "a", "l", "y", "s", "i", "s">>,
     <<"p", "r", "o", "g", "r", "a", "m", "m", "i", "n", "g">>,
     <<"m", "a", "c", "h", "i", "n", "e", " ", "l", "e", "a", "r", "n", "i", "n", "g">>,
     <<"A", "I">>,
     <<"a", "r", "t", "i", "f", "i", "c", "i", "a", "l", " ",
       "i", "n", "t", "e", "l", "l", "i", "g", "e", "n", "c", "e">>,
     <<"R", "A", "G">>, <<"r", "e", "t", "r", "i", "e", "v", "a", "l">>
    >>

\* The keys of knowledge_db, in the dict's order.
knowledge_db ==
    <<
     <<"p", "y", "t", "h", "o", "n">>,
     <<"l", "a", "n", "g", "g", "r", "a", "p", "h">>,
     <<"m", "u", "l", "t", "i", "-", "a", "g", "e", "n", "t">>,
     <<"t", "o", "o", "l">>,
     <<"p", "r", "o", "g", "r", "a", "m", "m", "i", "n", "g">>,
     <<"m", "a", "c", "h", "i", "n", "e", " ", "l", "e", "a", "r", "n", "i", "n", "g">>,
     <<"A", "I">>, <<"R", "A", "G">>,
     <<"r", "e", "t", "r", "i", "e", "v", "a", "l">>
    >>

\* extract_keywords: the list keywords (the tool returns it joined with ", ",
\* or "No significant keywords found" when it is empty).
extract_keywords(text) ==
    SelectSeq(important_terms, LAMBDA term : str_in(term, lower(text)))

\* search_knowledge_base: the topics whose entries make up results (the tool
\* returns the entries, or "No detailed information found" when there is none).
search_knowledge_base(keywords) ==
    SelectSeq(knowledge_db, LAMBDA topic : str_in(topic, lower(keywords)))

\* The texts the tools are called with: a few words, in either letter case.
PipelineWords ==
    {<<"A", "I">>,
     <<"a", "i">>,
     <<"R", "A", "G">>,
     <<"r", "a", "g">>,
     <<"P", "y", "t", "h", "o", "n">>,
     <<"t", "o", "o", "l">>,
     <<"d", "a", "t", "a">>}
RECURSIVE join_words(_)
join_words(ws) ==
    IF Len(ws) = 1 THEN ws[1] ELSE ws[1] \o <<" ">> \o join_words(Tail(ws))
PipelineTexts ==
    {join_words(ws) :
        ws \in UNION {[1..n -> PipelineWords] : n \in 1..MaxPipelineWords}}

ExtractKeywords ==
    /\ tool_output = <<>>
    /\ tool_output' = <<[tool |-> "extract_keywords",
                         found |-> extract_keywords(tool_input)]>>
    /\ UNCHANGED <<tool_input, workflowVars, deployedVars, limiterVars, cacheVars>>

SearchKnowledgeBase ==
    /\ tool_output = <<>>
    /\ tool_output' = <<[tool |-> "search_knowledge_base",
                         found |-> search_knowledge_base(tool_input)]>>
    /\ UNCHANGED <<tool_input, workflowVars, deployedVars, limiterVars, cacheVars>>

(***************************************************************************)
(* Idle values of the variables a specification does not use               *)
(***************************************************************************)
RefineIdle ==
    /\ wf = None /\ pc = None /\ state = EmptyDict /\ prompt = NoPrompt
    /\ replies = NoReplies /\ history = <<>>
ScoreIdle == qs = None /\ qs_approved = <<>>
PlannerIdle == response = <<>> /\ steps = <<>>
ChatIdle == threads = <<>> /\ sent = <<>>
XmasIdle ==
    /\ groq_client = None /\ request = <<>> /\ xresponse = <<>> /\ xcalls = <<>>
    /\ events = <<>> /\ spc = None /\ pending = <<>> /\ chunks = <<>>
ApiIdle ==
    /\ app = None /\ vectorstore_manager = None /\ rag_generator = None
    /\ api_response = <<>>
StartIdle ==
    /\ script = None /\ environ = {} /\ phase = None /\ client = None
    /\ nodes_run = 0 /\ llm_calls = 0
ChunkIdle == chunk_text = <<>> /\ chunk_size = 0 /\ chunked = <<>>
LimiterIdle == now = 0 /\ call_times = <<>> /\ let_through = <<>>
CacheIdle == retrieval_cache = <<>> /\ retrievals = <<>>
PipelineIdle == tool_input = <<>> /\ tool_output = <<>>
UtilIdle == LimiterIdle /\ CacheIdle /\ PipelineIdle
ServiceIdle ==
    ChatIdle /\ XmasIdle /\ ApiIdle /\ StartIdle /\ ChunkIdle /\ UtilIdle
AgentIdle ==
    /\ agent = None /\ apc = None /\ messages = <<>> /\ ahistory = <<>>
    /\ raised = FALSE /\ report = <<>>

(***************************************************************************)
(* The refine workflows: one invocation of either graph                    *)
(***************************************************************************)
Init ==
    /\ wf \in {"adaptive", "plan_execute"}
    /\ state = IF wf = "adaptive" THEN adaptive_initial_state ELSE plan_initial_state
    /\ pc = IF wf = "adaptive" THEN reflection_builder("START", state)
            ELSE plan_execute_reflect_builder("START", state)
    /\ prompt = NoPrompt
    /\ replies = NoReplies
    /\ history = <<>>
    /\ ScoreIdle /\ PlannerIdle /\ AgentIdle /\ ServiceIdle

Next ==
    \/ AdaptiveGenerator
    \/ AdaptiveCritic
    \/ AdaptiveFinalizer
    \/ Planner
    \/ Executor
    \/ PlanGenerator
    \/ PlanCritic
    \/ PlanFinalizer

Spec == Init /\ [][Next]_vars

\* Every llm.invoke returns and the graph runs its next node.
FairSpec == Spec /\ WF_vars(Next)

(***************************************************************************)
(* QualityScore.is_approved on every score triple                          *)
(***************************************************************************)
InitScore ==
    /\ qs \in QualityScore
    /\ qs_approved = <<>>
    /\ RefineIdle /\ PlannerIdle /\ AgentIdle /\ ServiceIdle

IsApproved ==
    /\ qs_approved = <<>>
    /\ qs_approved' = <<is_approved(qs)>>
    /\ UNCHANGED <<qs, refineVars, plannerVars, agentVars, serviceVars>>

NextScore == IsApproved

SpecScore == InitScore /\ [][NextScore]_vars

(***************************************************************************)
(* planner's parse on every short response                                 *)
(***************************************************************************)
Responses == UNION {[1..n -> Chars] : n \in 0..MaxResponseLen}

InitPlanner ==
    /\ response \in Responses
    /\ steps = <<>>
    /\ RefineIdle /\ ScoreIdle /\ AgentIdle /\ ServiceIdle

ParsePlan ==
    /\ steps = <<>>
    /\ steps' = <<planner(plan_initial_state, response).plan>>
    /\ UNCHANGED <<response, refineVars, scoreVars, agentVars, serviceVars>>

NextPlanner == ParsePlan

SpecPlanner == InitPlanner /\ [][NextPlanner]_vars

(***************************************************************************)
(* The tool-routing assistants: requests on one conversation thread        *)
(***************************************************************************)
InitAgent ==
    /\ agent \in {"stateful_agent", "agentic_rag_system"}
    /\ apc = "idle"
    /\ messages = <<>>
    /\ ahistory = <<>>
    /\ raised = FALSE
    /\ report = <<>>
    /\ RefineIdle /\ ScoreIdle /\ PlannerIdle /\ ServiceIdle

NextAgent ==
    \/ QueryAgent
    \/ Assistant
    \/ Tools
    \/ QueryAgentReport

SpecAgent == InitAgent /\ [][NextAgent]_vars

(***************************************************************************)
(* The customer support chatbot: messages sent under several session ids   *)
(***************************************************************************)
InitChat ==
    /\ threads = MemorySaver
    /\ sent = <<>>
    /\ RefineIdle /\ ScoreIdle /\ PlannerIdle /\ AgentIdle /\ XmasIdle /\ ApiIdle
    /\ StartIdle /\ ChunkIdle /\ UtilIdle

NextChat == SendMessage

SpecChat == InitChat /\ [][NextChat]_vars

(***************************************************************************)
(* The Christmas backend: POST /search requests, one after another         *)
(***************************************************************************)
\* The module's startup left a Groq client or None.
InitSearch ==
    /\ groq_client \in {None, "Groq"}
    /\ request = <<>> /\ xresponse = <<>> /\ xcalls = <<>>
    /\ events = <<>> /\ spc = None /\ pending = <<>> /\ chunks = <<>>
    /\ RefineIdle /\ ScoreIdle /\ PlannerIdle /\ AgentIdle /\ ChatIdle /\ ApiIdle
    /\ StartIdle /\ ChunkIdle /\ UtilIdle

NextSearch == Search

SpecSearch == InitSearch /\ [][NextSearch]_vars

(***************************************************************************)
(* The Christmas backend: one POST /search/stream response                 *)
(***************************************************************************)
InitStream ==
    /\ groq_client \in {None, "Groq"}
    /\ request = <<>> /\ xresponse = <<>> /\ xcalls = <<>>
    /\ events = <<>> /\ spc = "idle" /\ pending = <<>> /\ chunks = <<>>
    /\ RefineIdle /\ ScoreIdle /\ PlannerIdle /\ AgentIdle /\ ChatIdle /\ ApiIdle
    /\ StartIdle /\ ChunkIdle /\ UtilIdle

NextStream ==
    \/ SearchStream
    \/ GenStart
    \/ GenGreeting
    \/ GenLLM
    \/ GenFallback

SpecStream == InitStream /\ [][NextStream]_vars

\* The response is read to its end: the generator is resumed as long as it
\* has not finished.
FairSpecStream == SpecStream /\ WF_vars(NextStream)

(***************************************************************************)
(* The Production RAG API: startup and requests                            *)
(***************************************************************************)
InitApi ==
    /\ app = "created"
    /\ vectorstore_manager = None
    /\ rag_generator = None
    /\ api_response = <<>>
    /\ RefineIdle /\ ScoreIdle /\ PlannerIdle /\ AgentIdle /\ ChatIdle /\ XmasIdle
    /\ StartIdle /\ ChunkIdle /\ UtilIdle

NextApi ==
    \/ Startup
    \/ ApiQuery
    \/ ApiSearch
    \/ ApiStats

SpecApi == InitApi /\ [][NextApi]_vars

(***************************************************************************)
(* Startup of one script under one environment                             *)
(***************************************************************************)
InitStartup ==
    /\ script \in Scripts
    /\ environ \in SUBSET EnvVars
    /\ phase = "import"
    /\ client = None
    /\ nodes_run = 0
    /\ llm_calls = 0
    /\ RefineIdle /\ ScoreIdle /\ PlannerIdle /\ AgentIdle /\ ChatIdle /\ XmasIdle
    /\ ApiIdle /\ ChunkIdle /\ UtilIdle

NextStartup ==
    \/ Import
    \/ RunNode

SpecStartup == InitStartup /\ [][NextStartup]_vars

(***************************************************************************)
(* The chunkers on every short text                                        *)
(***************************************************************************)
InitChunk ==
    /\ chunk_text \in ChunkTexts
    /\ chunk_size \in 1..MaxChunkSize
    /\ chunked = <<>>
    /\ RefineIdle /\ ScoreIdle /\ PlannerIdle /\ AgentIdle /\ ChatIdle /\ XmasIdle
    /\ ApiIdle /\ StartIdle /\ UtilIdle

NextChunk ==
    \/ ChunkBySentences
    \/ ChunkByParagraphs

SpecChunk == InitChunk /\ [][NextChunk]_vars

(***************************************************************************)
(* The rate limiter under any sequence of calls                            *)
(***************************************************************************)
InitLimiter ==
    /\ now = 0
    /\ call_times = <<>>
    /\ let_through = <<>>
    /\ RefineIdle /\ ScoreIdle /\ PlannerIdle /\ AgentIdle /\ ChatIdle /\ XmasIdle
    /\ ApiIdle /\ StartIdle /\ ChunkIdle /\ CacheIdle /\ PipelineIdle

NextLimiter ==
    \/ Tick
    \/ WaitIfNeeded

SpecLimiter == InitLimiter /\ [][NextLimiter]_vars

(***************************************************************************)
(* The semantic cache under any sequence of retrievals                     *)
(***************************************************************************)
InitCache ==
    /\ retrieval_cache = <<>>
    /\ retrievals = <<>>
    /\ RefineIdle /\ ScoreIdle /\ PlannerIdle /\ AgentIdle /\ ChatIdle /\ XmasIdle
    /\ ApiIdle /\ StartIdle /\ ChunkIdle /\ LimiterIdle /\ PipelineIdle

NextCache == RetrievePythonDocs

SpecCache == InitCache /\ [][NextCache]_vars

(***************************************************************************)
(* The content pipeline's tools on every short text                        *)
(***************************************************************************)
InitPipeline ==
    /\ tool_input \in PipelineTexts
    /\ tool_output = <<>>
    /\ RefineIdle /\ ScoreIdle /\ PlannerIdle /\ AgentIdle /\ ChatIdle /\ XmasIdle
    /\ ApiIdle /\ StartIdle /\ ChunkIdle /\ LimiterIdle /\ CacheIdle

NextPipeline ==
    \/ ExtractKeywords
    \/ SearchKnowledgeBase

SpecPipeline == InitPipeline /\ [][NextPipeline]_vars

(***************************************************************************)
(* Properties                                                              *)
(***************************************************************************)
Counter(st) == IF wf = "adaptive" THEN st.iterations ELSE st.reflection_iterations
Cap == IF wf = "adaptive" THEN MAX_ITERATIONS ELSE MAX_REFLECTION_ITERATIONS
LastNode(h) == IF h = <<>> THEN "START" ELSE Last(h).node

\* A critique that approves the way the critic's prompt prescribes.
StartsWithApproved(critique) == critique # <<>> /\ critique[1] = "APPROVED:"

\* No critic pass of this invocation approved the draft.
NeverApproved ==
    IF wf = "adaptive"
    THEN \A i \in 1..Len(state.scores) : ~is_approved(state.scores[i])
    ELSE ~StartsWithApproved(state.critique)

\* C1: whatever the critic answers, either refine loop reaches its finalizer,
\* and the generator is called at most MAX_ITERATIONS + 1 times (adaptive) or
\* MAX_REFLECTION_ITERATIONS + 1 times (plan-execute) on the way.
C1_BoundedLoop ==
    /\ <>(Count(history, "finalizer") = 1)
    /\ [](LLMCalls(history, "generator") <= Cap + 1)

\* The adaptive loop has run to its cap without one approval, and finalized.
C1_Witness ==
    /\ wf = "adaptive" /\ pc = "END"
    /\ NeverApproved
    /\ LLMCalls(history, "generator") = MAX_ITERATIONS
    /\ Count(history, "finalizer") = 1

\* C2: in both loops the iteration counter goes up by exactly 1 in a critic
\* pass and is left as it is by every other node (so it never decreases).
C2_CounterSteps ==
    [][IF LastNode(history') = "critic"
       THEN Counter(state') = Counter(state) + 1
       ELSE Counter(state') = Counter(state)]_vars

\* The plan-execute router has seen the counter at 2 and the run has ended.
C2_Witness ==
    /\ wf = "plan_execute" /\ pc = "END"
    /\ Counter(state) = 2
    /\ Count(history, "critic") = 2

\* C3: is_approved() is true exactly when no score is 3 or below.
C3_ApprovedIffAllAtLeast4 ==
    qs_approved # <<>> =>
        (qs_approved[1] <=>
            \A f \in {"clarity", "completeness", "accuracy"} : qs[f] \notin ScoreMin..3)

\* The boundary: [3,4,4] was evaluated, and is not approved.
C3_Witness ==
    /\ qs_approved = <<FALSE>>
    /\ qs = [clarity |-> 3, completeness |-> 4, accuracy |-> 4]

\* C4: after a critic pass of the adaptive loop the router's answer is
\* "finalizer" exactly when the last score is approved or iterations has
\* reached MAX_ITERATIONS, and "generator" otherwise.
C4_RouteAfterCritic ==
    (wf = "adaptive" /\ LastNode(history) = "critic") =>
        LET stop == \/ is_approved(Last(state.scores))
                    \/ state.iterations >= MAX_ITERATIONS
        IN  pc = (IF stop THEN "finalizer" ELSE "generator")

\* The third critic pass did not approve and the router stops the loop.
C4_Witness ==
    /\ wf = "adaptive" /\ LastNode(history) = "critic"
    /\ state.iterations = MAX_ITERATIONS
    /\ ~is_approved(Last(state.scores))
    /\ pc = "finalizer"

\* C5: only the finalizer changes final_output, it runs once, and no node
\* runs after it: every step starts in a state where the finalizer has not
\* run, and a run that has ended has run the finalizer exactly once, last.
C5_FinalOutputOnce ==
    [][/\ Count(history, "finalizer") = 0
       /\ (state'.final_output # state.final_output => LastNode(history') = "finalizer")
       /\ (pc' = "END" => /\ Count(history', "finalizer") = 1
                          /\ LastNode(history') = "finalizer")]_vars

\* A plan-execute run has ended with final_output written by its finalizer.
C5_Witness ==
    /\ wf = "plan_execute" /\ pc = "END"
    /\ state.final_output # <<>>
    /\ LastNode(history) = "finalizer"

\* C6: when no critic pass approved and the counter is at its cap, the router
\* sends the run to the finalizer, final_output is the draft of the last
\* generator call, and the last score / critique is still the one the critic
\* returned, not approved.
C6_CapSurfacesLastDraft ==
    (NeverApproved /\ Counter(state) >= Cap /\ history # <<>>) =>
        /\ pc \in {"finalizer", "END"}
        /\ pc = "END" =>
            /\ state.final_output = replies["generator"]
            /\ IF wf = "adaptive"
               THEN /\ Last(state.scores) = replies["critic"]
                    /\ ~is_approved(Last(state.scores))
               ELSE /\ state.critique = replies["critic"]
                    /\ ~StartsWithApproved(state.critique)

\* A run that had two different drafts ends at the cap, never approved.
C6_Witness ==
    /\ pc = "END" /\ NeverApproved /\ Counter(state) = Cap
    /\ prompt.kind = "evaluate"
    /\ state.final_output = prompt.draft
    /\ wf = "plan_execute" /\ state.critique = <<"improve">>

\* C7: when the executor first hands over to the generator, results has one
\* entry per plan step, entry i labelled i and answering plan step i, and the
\* executor made exactly one LLM call per step (none for an empty plan).
C7_ResultsPerStep ==
    (wf = "plan_execute" /\ pc = "generator" /\ Count(history, "generator") = 0) =>
        /\ Len(state.results) = Len(state.plan)
        /\ \A i \in 1..Len(state.plan) :
            /\ state.results[i].label = i
            /\ state.results[i].content.re = state.plan[i]
        /\ LLMCalls(history, "executor") = Len(state.plan)
        /\ Count(history, "executor") >= 1

\* Handover after a plan of three steps, two of them different.
C7_Witness ==
    /\ wf = "plan_execute" /\ pc = "generator" /\ Count(history, "generator") = 0
    /\ Len(state.plan) = 3 /\ state.plan[1] # state.plan[2]
    /\ Len(state.results) = 3

\* C8: the executor runs the steps one at a time in plan order: when it has
\* just executed step k, its prompt named plan step k and carried the results
\* of steps 1..k-1, all of them, in order.
C8_StepOrder ==
    (wf = "plan_execute" /\ LastNode(history) = "executor" /\ Last(history).llm) =>
        LET k == state.current_step
        IN  /\ prompt.kind = "execute"
            /\ prompt.step = state.plan[k]
            /\ Len(prompt.previous) = k - 1
            /\ \A j \in 1..(k - 1) :
                /\ prompt.previous[j] = state.results[j]
                /\ prompt.previous[j].label = j
                /\ prompt.previous[j].content.re = state.plan[j]
            /\ Len(state.results) = k
            /\ state.results[k].content = replies["executor"]

\* Step 3 has just been executed, with the results of steps 1 and 2 in its prompt.
C8_Witness ==
    /\ wf = "plan_execute" /\ LastNode(history) = "executor" /\ Last(history).llm
    /\ state.current_step = 3
    /\ Len(prompt.previous) = 2

\* The lines of a text, by the positions of its newlines.
Cuts(s) == {0, Len(s) + 1} \cup {i \in 1..Len(s) : s[i] = "\n"}
NthCut(s, n) == CHOOSE c \in Cuts(s) : Cardinality({d \in Cuts(s) : d < c}) = n - 1
LineAt(s, n) == [i \in 1..(NthCut(s, n + 1) - NthCut(s, n) - 1) |-> s[NthCut(s, n) + i]]
\* t is line l without its leading and trailing blanks.
IsStripped(t, l) ==
    \E a \in 0..Len(l) :
        /\ \A i \in 1..a : l[i] = " "
        /\ \A i \in (a + Len(t) + 1)..Len(l) : l[i] = " "
        /\ a + Len(t) <= Len(l)
        /\ \A i \in 1..Len(t) : t[i] = l[a + i]
        /\ t # <<>> => (t[1] # " " /\ t[Len(t)] # " ")
\* Line n is kept: not blank, and a digit among its first three characters.
Kept(s, n) ==
    LET l == LineAt(s, n)
    IN  /\ \E i \in 1..Len(l) : l[i] # " "
        /\ \E i \in 1..3 : i <= Len(l) /\ l[i] \in Digits

\* C9: the plan is the kept lines of the response (non-blank, a digit among
\* the first three characters), stripped, in their order; nothing else.
C9_PlanIsKeptLines ==
    steps # <<>> =>
        LET plan == steps[1]
            n == Cardinality(Cuts(response)) - 1
            kept == {i \in 1..n : Kept(response, i)}
            rank(i) == Cardinality({j \in kept : j <= i})
        IN  /\ Len(plan) = Cardinality(kept)
            /\ \A i \in kept : IsStripped(plan[rank(i)], LineAt(response, i))

\* "a" is dropped and " 1" is kept as "1".
C9_Witness ==
    /\ response = <<"a", "\n", " ", "1">>
    /\ steps = << <<<<"1">>>> >>

\* C10: the assistant's response goes to the tool stage exactly when it
\* carries a tool call and ends the invocation otherwise; an invocation ends
\* only on an assistant response without tool calls; after the tool stage the
\* assistant runs again.
C10_ToolRouting ==
    messages # <<>> =>
        LET last == Last(messages)
        IN  /\ last.type = "ai" =>
                apc = (IF last.tool_calls # <<>> THEN "tools" ELSE "END")
            /\ apc = "tools" => (last.type = "ai" /\ last.tool_calls # <<>>)
            /\ apc = "END" => (last.type = "ai" /\ last.tool_calls = <<>>)
            /\ last.type = "tool" => apc = "assistant"

\* An invocation that went through the tool stage has returned.
C10_Witness ==
    /\ apc = "END"
    /\ \E i \in 1..Len(messages) : messages[i].type = "tool"
    /\ Last(messages).type = "ai" /\ Last(messages).tool_calls = <<>>

\* The tool-stage runs of the current invocation, and the assistant responses
\* of the current request (those after the last user turn).
ToolStageRuns == Cardinality({i \in 1..Len(ahistory) : ahistory[i] = "tools"})
LastHuman ==
    CHOOSE h \in 1..Len(messages) :
        /\ messages[h].type = "human"
        /\ \A i \in (h + 1)..Len(messages) : messages[i].type # "human"
ResponsesWithCalls ==
    Cardinality({i \in (LastHuman + 1)..Len(messages) :
        messages[i].type = "ai" /\ messages[i].tool_calls # <<>>})

\* C11: when the assistant's first response to a request carries no tool
\* call, the invocation is finished with that response as the last message
\* and the tool stage has not run; in every invocation the tool stage has run
\* once per assistant response that carried a tool call (the response whose
\* tool stage is about to run not yet counted).
C11_DirectAnswerAndToolCount ==
    messages # <<>> =>
        /\ ToolStageRuns =
              ResponsesWithCalls - (IF apc = "tools" /\ ~raised THEN 1 ELSE 0)
        /\ (/\ Len(messages) > LastHuman
            /\ messages[LastHuman + 1].tool_calls = <<>>)
           => (/\ Len(messages) = LastHuman + 1
               /\ apc = "END"
               /\ ToolStageRuns = 0)

\* A request answered directly: one assistant response, the tool stage not run.
C11_Witness ==
    /\ apc = "END"
    /\ ahistory = <<"assistant">>
    /\ Len(messages) = LastHuman + 1
    /\ Last(messages).tool_calls = <<>>

\* C12: a failure inside a capability yields a text that is appended as a
\* tool turn; no exception leaves a capability: every tool turn holds a
\* returned text, none an exception ToolNode caught, and no exception leaves
\* the invocation.
C12_NoExceptionLeavesCapability ==
    /\ ~raised
    /\ \A i \in 1..Len(messages) :
        messages[i].type = "tool" => messages[i].status = "success"

\* The user messages sent under session id s and the replies returned for
\* them, in the order of the calls.
RECURSIVE Exchanges(_, _)
Exchanges(log, s) ==
    IF log = <<>> THEN <<>>
    ELSE LET c == Last(log)
             before == Exchanges(SubSeq(log, 1, Len(log) - 1), s)
         IN  IF c.session_id = s
             THEN before \o <<HumanMessage(c.user_input), AIMessage(c.returned, <<>>)>>
             ELSE before
IsPrefix(a, b) == Len(a) <= Len(b) /\ a = SubSeq(b, 1, Len(a))
HistoryIsOwnExchanges == \A s \in SessionIds : threads[s] = Exchanges(sent, s)
CallKeepsOtherSessions ==
    sent' # sent =>
        \A s \in SessionIds :
            /\ IsPrefix(threads[s], threads'[s])
            /\ s # Last(sent').session_id => threads'[s] = threads[s]

\* C13: after any interleaving of send_message calls, the history stored for
\* a session id is exactly the user messages sent under that id and the
\* replies to them, in order; a call only appends to its own session's
\* history and leaves every other session's history unchanged.
C13_SessionIsolation ==
    []HistoryIsOwnExchanges /\ [][CallKeepsOtherSessions]_vars

\* Calls on customer_a, customer_b, customer_a: both histories are non-empty
\* and customer_a's holds two exchanges.
C13_Witness ==
    /\ Len(sent) = 3
    /\ sent[1].session_id = "customer_a"
    /\ sent[2].session_id = "customer_b"
    /\ sent[3].session_id = "customer_a"
    /\ Len(threads["customer_a"]) = 4
    /\ Len(threads["customer_b"]) = 2

\* The request under service fails /search's validation.
InvalidRequest ==
    \/ strip(request[1].query) = <<>>
    \/ request[1].n_results < 1
    \/ request[1].n_results > 10
ValidationMessage ==
    IF strip(request[1].query) = <<>> THEN "Query cannot be empty"
    ELSE "n_results must be between 1 and 10"

\* C14: a /search request whose query is empty or whitespace-only, or whose
\* n_results is outside 1..10, is answered with status 400 carrying the
\* validation message, and neither the store nor the LLM is called for it.
C14_InvalidRequestIs400 ==
    (xresponse # <<>> /\ InvalidRequest) =>
        /\ xresponse[1].status_code = 400
        /\ xresponse[1].detail = ValidationMessage
        /\ xcalls = <<>>

IsTerminal(e) == e.kind \in {"done", "error"}
StreamWellTerminated ==
    /\ \A i \in 1..Len(events) : IsTerminal(events[i]) => i = Len(events)
    /\ spc = "closed" => (events # <<>> /\ IsTerminal(Last(events)))
    /\ (spc = "closed" /\ Last(events).kind = "error") =>
            (/\ Len(events) = 1
             /\ strip(request[1].query) = <<>> \/ xcalls = <<"store">>)
    /\ (spc = "closed" /\ strip(request[1].query) = <<>>) =>
            Last(events).kind = "error"

\* C15: every response stream of /search/stream ends, and ends with exactly
\* one terminal event, which is its last event: a done marker, or an error
\* marker when the request failed (blank query, failed store search); no
\* event follows the terminal event and no stream carries both markers.
C15_OneTerminalEvent ==
    []StreamWellTerminated /\ (spc = "start" ~> spc = "closed")

\* A stream where the LLM's stream broke after a token: chunks, the LLM's
\* token, the fallback's word, done.
C15_Witness ==
    /\ spc = "closed"
    /\ Len(events) = 4
    /\ events[1].kind = "chunks"
    /\ events[2].kind = "token" /\ events[2].from = "llm"
    /\ events[3].kind = "token" /\ events[3].from = "fallback"
    /\ events[4].kind = "done"

\* C16: every handler of the Production RAG API reports a failure as status
\* 500 whose detail field is the underlying error message, also when the RAG
\* components are not initialised or the manager's store is not loaded.
C16_FailureIs500WithDetail ==
    (api_response # <<>> /\ api_response[1].response.failure # "") =>
        LET r == api_response[1].response
        IN  /\ r.status_code = 500
            /\ r.has_detail
            /\ r.detail = r.failure

KeyAbsent == provider_key(script) \notin environ

RECURSIVE Squeeze(_)
Squeeze(s) ==
    IF s = <<>> THEN <<>>
    ELSE (IF isspace(s[1]) THEN <<>> ELSE <<s[1]>>) \o Squeeze(Tail(s))
RECURSIVE Concat(_)
Concat(ss) == IF ss = <<>> THEN <<>> ELSE ss[1] \o Concat(Tail(ss))
\* a occurs in b as a run of consecutive characters.
Occurs(a, b) ==
    \E i \in 0..(Len(b) - Len(a)) : SubSeq(b, i + 1, i + Len(a)) = a
ChunkedBy(by) == chunked # <<>> /\ chunked[1].by = by
ChunksOf(by) == IF ChunkedBy(by) THEN chunked[1].chunks ELSE <<>>
\* Every sentence is inside one chunk, and the chunks hold the text's
\* characters in their order.
SentencesKept ==
    /\ \A i \in 1..Len(re_split(chunk_text)) :
            strip(re_split(chunk_text)[i]) # <<>> =>
                \E c \in 1..Len(ChunksOf("sentences")) :
                    Occurs(strip(re_split(chunk_text)[i]), ChunksOf("sentences")[c])
    /\ Squeeze(Concat(ChunksOf("sentences"))) = Squeeze(chunk_text)

\* C18: every chunk chunk_by_sentences returns has at most max_chunk_size
\* characters, for every text and every max_chunk_size >= 1, and the
\* sentences are kept intact and in their order.
C18_ChunksWithinMaxSize ==
    ChunkedBy("sentences") =>
        /\ \A c \in 1..Len(ChunksOf("sentences")) :
                Len(ChunksOf("sentences")[c]) <= chunk_size
        /\ SentencesKept

ParagraphsKept ==
    /\ \A i \in 1..Len(split_paragraphs(chunk_text)) :
            strip(split_paragraphs(chunk_text)[i]) # <<>> =>
                \E c \in 1..Len(ChunksOf("paragraphs")) :
                    Occurs(strip(split_paragraphs(chunk_text)[i]),
                           ChunksOf("paragraphs")[c])
    /\ Squeeze(Concat(ChunksOf("paragraphs"))) = Squeeze(chunk_text)

\* C19: chunk_by_paragraphs combines a paragraph shorter than min_chunk_size
\* with the paragraph after it, so every chunk but possibly the last has at
\* least min_chunk_size characters; no non-empty paragraph is lost and the
\* paragraphs keep their order.
C19_ChunksReachMinSize ==
    ChunkedBy("paragraphs") =>
        /\ \A c \in 1..(Len(ChunksOf("paragraphs")) - 1) :
                Len(ChunksOf("paragraphs")[c]) >= chunk_size
        /\ ParagraphsKept

\* C20: in plan_execute, should_refine routes to the finalizer before
\* reflection_iterations reaches MAX_REFLECTION_ITERATIONS only when the
\* critique starts with "APPROVED:"; a critique that asks for improvements
\* is never treated as an approval.
C20_EarlyStopOnlyOnApproval ==
    (/\ wf = "plan_execute"
     /\ LastNode(history) = "critic"
     /\ pc = "finalizer"
     /\ state.reflection_iterations < MAX_REFLECTION_ITERATIONS)
    => StartsWithApproved(state.critique)

\* The request's n_results is outside the accepted 1..10.
CountOutOfRange ==
    \/ request[1].n_results < n_results_min
    \/ request[1].n_results > n_results_max

\* C21: an endpoint that accepts a result count rejects a count that is zero,
\* negative or above the maximum before the vector store is queried: for a
\* /search/stream request with such an n_results the store is never called
\* and the stream carries an error event only.
C21_OutOfRangeCountRejected ==
    (request # <<>> /\ CountOutOfRange /\ spc \notin {"idle", "start"}) =>
        /\ \A i \in 1..Len(xcalls) : xcalls[i] # "store"
        /\ events[1].kind = "error"

\* The feedback a refine prompt quotes: the score (adaptive) or the critique.
Feedback(p) == IF wf = "adaptive" THEN p.last_score ELSE p.critique

\* C22: the first generator call of an invocation builds its prompt from the
\* task (adaptive) or the task and the execution results (plan-execute)
\* alone; every later generator call directly follows a critic pass, and its
\* prompt carries the current draft, which is the draft that critic pass
\* evaluated, and the score / critique that critic pass returned.
C22_PromptFromLatestCritique ==
    [][(LastNode(history') = "generator" /\ history' # history) =>
        IF Count(history, "generator") = 0
        THEN /\ prompt'.kind = IF wf = "adaptive" THEN "create" ELSE "synthesize"
             /\ DOMAIN prompt' = IF wf = "adaptive" THEN {"kind", "task"}
                                 ELSE {"kind", "task", "results"}
             /\ wf = "plan_execute" => prompt'.results = state.results
             /\ Count(history, "critic") = 0
        ELSE /\ prompt'.kind = "improve"
             /\ LastNode(history) = "critic"
             /\ prompt.kind = "evaluate"
             /\ prompt'.draft = prompt.draft
             /\ prompt'.draft = replies["generator"]
             /\ Feedback(prompt') = replies["critic"]]_vars

\* The adaptive generator has refined twice, after two different scores and
\* on two different drafts; its last prompt quotes the second score.
C22_Witness ==
    /\ wf = "adaptive" /\ LastNode(history) = "generator"
    /\ Count(history, "generator") = 3
    /\ state.scores[1] # state.scores[2]
    /\ prompt.kind = "improve" /\ prompt.last_score = state.scores[2]
    /\ prompt.draft # state.draft

\* The score history has one entry per counted iteration.
ScoresInStep == wf = "adaptive" => Len(state.scores) = state.iterations
\* A critic pass appends the score it received; no other node touches scores.
ScoresAppendOnly ==
    wf = "adaptive" =>
        IF LastNode(history') = "critic" /\ history' # history
        THEN state'.scores = Append(state.scores, replies'["critic"])
        ELSE state'.scores = state.scores

\* C23: in the adaptive loop len(scores) = iterations in every state, each
\* critic pass appends exactly one score at the end, and the scores recorded
\* before are never changed, reordered or removed.
C23_ScoreHistoryAppendOnly == []ScoresInStep /\ [][ScoresAppendOnly]_vars

\* Three critic passes, the first two scores different, the run finalized.
C23_Witness ==
    /\ wf = "adaptive" /\ pc = "END"
    /\ Len(state.scores) = 3 /\ state.iterations = 3
    /\ state.scores[1] # state.scores[2]

\* The step counter stays within the plan and counts the results.
StepWithinPlan ==
    wf = "plan_execute" =>
        /\ 0 <= state.current_step /\ state.current_step <= Len(state.plan)
        /\ Len(state.results) = state.current_step
\* Once the planner has run, no node changes the plan.
PlanReadOnly ==
    (wf = "plan_execute" /\ Count(history, "planner") >= 1) =>
        state'.plan = state.plan

\* C24: in plan_execute the plan is never modified after the planner has
\* run, and in every state 0 <= current_step <= len(plan) and
\* len(results) = current_step.
C24_PlanFixedAndStepInRange == []StepWithinPlan /\ [][PlanReadOnly]_vars

\* A plan of three steps has been executed and the run has been refined to
\* its end.
C24_Witness ==
    /\ wf = "plan_execute" /\ pc = "END"
    /\ Len(state.plan) = 3 /\ state.current_step = 3 /\ Len(state.results) = 3
    /\ state.reflection_iterations = MAX_REFLECTION_ITERATIONS

\* The calls let through in the 60 seconds that end with call i.
InWindow(i) ==
    {j \in 1..i : let_through[i] - let_through[j] < minute}

\* C25: with a monotonic clock, the number of wait_if_needed calls that
\* returned within any 60-second window never exceeds calls_per_minute.
C25_WindowWithinLimit ==
    \A i \in 1..Len(let_through) : Cardinality(InWindow(i)) <= calls_per_minute

Similar(v1, v2) == cosine_similarity_at_least(v1, v2, threshold)
\* No two entries of the cache are similar to each other.
NoSimilarEntries ==
    \A i, j \in 1..Len(retrieval_cache) :
        i # j => ~Similar(retrieval_cache[i].embedding, retrieval_cache[j].embedding)
\* What a call of retrieve_python_docs does to the cache, given the cache it
\* found.
CacheStep ==
    retrievals' # retrievals =>
        LET call == Last(retrievals')
            hits == {i \in 1..Len(retrieval_cache) :
                        Similar(call.query, retrieval_cache[i].embedding)}
        IN  IF hits # {}
            THEN /\ retrieval_cache' = retrieval_cache
                 /\ ~call.store_queried
                 /\ \E i \in hits : call.returned = retrieval_cache[i].result
            ELSE /\ call.store_queried
                 /\ IF call.results = <<>>
                    THEN retrieval_cache' = retrieval_cache
                    ELSE /\ Len(retrieval_cache') = Len(retrieval_cache) + 1
                         /\ SubSeq(retrieval_cache', 1, Len(retrieval_cache)) =
                                retrieval_cache
                         /\ Last(retrieval_cache').embedding = call.query

\* C26: after any sequence of retrieve_python_docs calls no two cache entries
\* have embeddings whose similarity is >= 0.92; an entry is appended only
\* after a miss against every entry and only when retrieval returned
\* documents; a hit returns the stored result without querying the vector
\* store and leaves the cache unchanged.
C26_CacheEntriesDissimilar == []NoSimilarEntries /\ [][CacheStep]_vars

\* Two entries in the cache, and the last call was a hit on the second entry
\* by a query that is similar to it but not equal to it.
C26_Witness ==
    /\ Len(retrieval_cache) = 2
    /\ Len(retrievals) = 3
    /\ ~Last(retrievals).store_queried
    /\ Last(retrievals).query # retrieval_cache[2].embedding
    /\ Last(retrievals).returned = retrieval_cache[2].result

\* C27: query_agent reports a tool as used exactly when the assistant called
\* a tool while handling this request, and the answer it reports is the
\* assistant's answer to this request (none when that answer has no text),
\* also when earlier requests on the same thread used tools.
C27_ReportConcernsCurrentRequest ==
    report # <<>> =>
        /\ (report[1].used_tool # <<>>) = (ResponsesWithCalls > 0)
        /\ report[1].final_answer =
              IF Last(messages).content = "" THEN <<>> ELSE <<Last(messages).content>>

\* C28: for POST /query the request's top_k determines how many chunks are
\* retrieved as context: an answered request with 1 <= top_k retrieved top_k
\* chunks (the store holding at least that many).
C28_TopKDeterminesContext ==
    (/\ api_response # <<>>
     /\ api_response[1].path = "/query"
     /\ api_response[1].response.status_code = 200
     /\ api_response[1].request.top_k >= 1) =>
        api_response[1].response.retrieved =
            Min(api_response[1].request.top_k, StoreSize)

\* C29: within one stream of /search/stream all token events come from one
\* source, the LLM's streamed answer or the fallback text of the first chunk
\* (or the greeting), never from two of them, also when the LLM stream fails
\* after some of its tokens were emitted.
C29_SingleTokenSource ==
    \A i, j \in 1..Len(events) :
        (events[i].kind = "token" /\ events[j].kind = "token") =>
            events[i].from = events[j].from

\* The entries a tool matches against, and the entries it found.
Entries(tool) == IF tool = "extract_keywords" THEN important_terms ELSE knowledge_db
Found(out) == {out.found[i] : i \in 1..Len(out.found)}

\* C30: both tools match case-insensitively on every listed entry: every
\* term of important_terms (topic of knowledge_db) that occurs in the text,
\* letter case aside, is reported, including the entries "AI" and "RAG".
C30_EveryEntryMatchesAnyCase ==
    tool_output # <<>> =>
        LET entries == Entries(tool_output[1].tool)
        IN  \A i \in 1..Len(entries) :
                Occurs(lower(entries[i]), lower(tool_input)) =>
                    entries[i] \in Found(tool_output[1])

====
